---------------------------- MODULE Spec2Model ----------------------------
(***************************************************************************)
(* PlaylistFixer: the matching engine and the repair loop of               *)
(* core/vendor/repair_playlist_safe_v4.py, the export, the candidate notes, *)
(* the status classes and the file names of core/runner.py, and the       *)
(* selection handling and the two row views of ui/main_window.py.         *)
(*                                                                         *)
(* Text.  A Python str is a sequence of characters, each character a       *)
(* one-character string ("a", " ", "-").  Characters outside ASCII are     *)
(* written by name: "EN_DASH", "EM_DASH", "RSQUO", "LSQUO", "ACUTE",       *)
(* "MIDDOT", "BULLET", "BACKTICK", "FWSP" (U+3000).  Python's None and the empty str   *)
(* are both falsy; where the code only tests falsiness they are the empty  *)
(* sequence None.  An optional integer is <<>> (None) or <<n>>.            *)
(***************************************************************************)
EXTENDS Integers, Naturals, Sequences, FiniteSets, TLC

None == <<>>

Some(n) == <<n>>

(***************************************************************************)
(* Character classes                                                       *)
(***************************************************************************)
LowerSeq ==
    <<"a","b","c","d","e","f","g","h","i","j","k","l","m",
      "n","o","p","q","r","s","t","u","v","w","x","y","z">>

UpperSeq ==
    <<"A","B","C","D","E","F","G","H","I","J","K","L","M",
      "N","O","P","Q","R","S","T","U","V","W","X","Y","Z">>

DigitSeq == <<"0","1","2","3","4","5","6","7","8","9">>

Range(s) == {s[k] : k \in 1..Len(s)}

LowerSet == Range(LowerSeq)

UpperSet == Range(UpperSeq)

DigitSet == Range(DigitSeq)

\* str.strip() and the regex class \s
IsSpace(c) == c \in {" ", "\t", "\n", "\r", "FWSP"}

IsDigit(c) == c \in DigitSet

\* the regex class \w
IsWord(c) == c \in LowerSet \/ c \in UpperSet \/ c \in DigitSet \/ c = "_"

\* str.lower() / str.upper() on one character
LowerChar(c) ==
    IF c \in UpperSet
    THEN LowerSeq[CHOOSE k \in 1..Len(UpperSeq) : UpperSeq[k] = c]
    ELSE c

UpperChar(c) ==
    IF c \in LowerSet
    THEN UpperSeq[CHOOSE k \in 1..Len(LowerSeq) : LowerSeq[k] = c]
    ELSE c

Lower(s) == [k \in 1..Len(s) |-> LowerChar(s[k])]

Upper(s) == [k \in 1..Len(s) |-> UpperChar(s[k])]

(***************************************************************************)
(* str primitives                                                          *)
(***************************************************************************)
\* s[a-1:b] of Python, 1-based and inclusive here; empty when a > b
Slice(s, a, b) == IF a > b THEN <<>> ELSE SubSeq(s, a, b)

StartsWith(s, p) == Len(p) <= Len(s) /\ Slice(s, 1, Len(p)) = p

EndsWith(s, p) == Len(p) <= Len(s) /\ Slice(s, Len(s) - Len(p) + 1, Len(s)) = p

\* p occurs in s starting at position k
OccursAt(s, p, k) ==
    k >= 1 /\ k + Len(p) - 1 <= Len(s) /\ \A j \in 1..Len(p) : s[k + j - 1] = p[j]

\* the Python test  p in s
Contains(s, p) == \E k \in 1..(Len(s) + 1) : OccursAt(s, p, k)

\* the first position from k on that holds no white space, Len(s) + 1 if none
RECURSIVE FirstKept(_, _)
FirstKept(s, k) ==
    IF k > Len(s) THEN k ELSE IF IsSpace(s[k]) THEN FirstKept(s, k + 1) ELSE k

\* the last position up to k that holds no white space, 0 if none
RECURSIVE LastKept(_, _)
LastKept(s, k) ==
    IF k < 1 THEN k ELSE IF IsSpace(s[k]) THEN LastKept(s, k - 1) ELSE k

\* str.strip()
Strip(s) == Slice(s, FirstKept(s, 1), LastKept(s, Len(s)))

\* variant of RStripNL: the line is kept as readlines gave it
LineAsRead(s) == s

\* str.rstrip("\n")
RECURSIVE RStripNL(_)
RStripNL(s) ==
    IF s # <<>> /\ s[Len(s)] = "\n" THEN RStripNL(Slice(s, 1, Len(s) - 1)) ELSE s

\* sep.join(parts)
RECURSIVE Join(_, _)
Join(sep, parts) ==
    IF parts = <<>> THEN <<>>
    ELSE IF Len(parts) = 1 THEN parts[1]
    ELSE parts[1] \o sep \o Join(sep, Tail(parts))

\* int(text) for a text of decimal digits
RECURSIVE DigitsValue(_)
DigitsValue(ds) ==
    IF ds = <<>> THEN 0
    ELSE 10 * DigitsValue(Slice(ds, 1, Len(ds) - 1))
         + ((CHOOSE k \in 1..10 : DigitSeq[k] = ds[Len(ds)]) - 1)

(***************************************************************************)
(* norm (repair_playlist_safe_v4.py)                                       *)
(***************************************************************************)
\* _DASHES.sub("-", s)
SubDashes(s) == [k \in 1..Len(s) |-> IF s[k] \in {"EN_DASH", "EM_DASH"} THEN "-" ELSE s[k]]

\* variant of DropApostrophes: only the straight apostrophe is removed
DropStraightApostrophes(s) ==
    LET Keep(c) == c # "'"
    IN  SelectSeq(s, Keep)

\* the four replace(.., "'") calls followed by replace("'", "")
DropApostrophes(s) ==
    LET Keep(c) == c \notin {"RSQUO", "LSQUO", "BACKTICK", "ACUTE", "'"}
    IN  SelectSeq(s, Keep)

\* _BAD_PUNCT.sub(" ", s), replace("_", " "), replace("　", " ")
SubSeparators(s) ==
    [k \in 1..Len(s) |->
        IF s[k] \in {"MIDDOT", "BULLET", "|", "_", "FWSP"} THEN " " ELSE s[k]]

\* length of the match of \b(feat\.|ft\.)\b starting at position p, 0 if none
FeatMatchLen(s, p) ==
    LET before == p = 1 \/ ~IsWord(s[p - 1])
        After(q) == q <= Len(s) /\ IsWord(s[q])
    IN  IF before /\ OccursAt(s, <<"f","e","a","t",".">>, p) /\ After(p + 5) THEN 5
        ELSE IF before /\ OccursAt(s, <<"f","t",".">>, p) /\ After(p + 3) THEN 3
        ELSE 0

\* _FEAT.sub("feat", s) from position p on
RECURSIVE SubFeat(_, _)
SubFeat(s, p) ==
    IF p > Len(s) THEN <<>>
    ELSE LET n == FeatMatchLen(s, p)
         IN  IF n > 0 THEN <<"f","e","a","t">> \o SubFeat(s, p + n)
             ELSE <<s[p]>> \o SubFeat(s, p + 1)

\* _REMOVE_PARENS.sub("", s) from position p on: an opener, the shortest run
\* up to the first closer; "." matches no "\n", so the run holds none
RECURSIVE RemoveParens(_, _)
RemoveParens(s, p) ==
    IF p > Len(s) THEN <<>>
    ELSE LET closers == {q \in (p + 1)..Len(s) :
                            /\ s[q] \in {")", "]", "}"}
                            /\ \A r \in (p + 1)..(q - 1) : s[r] # "\n"}
         IN  IF s[p] \in {"(", "[", "{"} /\ closers # {}
             THEN RemoveParens(s, (CHOOSE q \in closers : \A r \in closers : q <= r) + 1)
             ELSE <<s[p]>> \o RemoveParens(s, p + 1)

\* _MULTI_SPACE.sub(" ", s)
CollapseSpace(s) ==
    LET First(k) == ~(IsSpace(s[k]) /\ k > 1 /\ IsSpace(s[k - 1]))
        idx == SelectSeq([k \in 1..Len(s) |-> k], First)
    IN  [j \in 1..Len(idx) |-> IF IsSpace(s[idx[j]]) THEN " " ELSE s[idx[j]]]

norm(s) ==
    IF s = None THEN None
    ELSE Strip(CollapseSpace(RemoveParens(
             SubFeat(Lower(SubSeparators(DropApostrophes(SubDashes(Strip(s))))), 1), 1)))

(***************************************************************************)
(* tokens, jaccard                                                         *)
(***************************************************************************)
IsTokenSep(c) == c \in {" ", "\t", "/", "\\", "-", ":", ",", ";", ".", "!", "?"}

\* re.split(r"[ \t/\\\-:,;.!?]+", s) without the empty parts, as a set
tokens(s) ==
    {Slice(s, a, b) : <<a, b>> \in
        {ab \in (1..Len(s)) \X (1..Len(s)) :
            /\ ab[1] <= ab[2]
            /\ \A k \in ab[1]..ab[2] : ~IsTokenSep(s[k])
            /\ (ab[1] = 1 \/ IsTokenSep(s[ab[1] - 1]))
            /\ (ab[2] = Len(s) \/ IsTokenSep(s[ab[2] + 1]))}}

\* |ta & tb| / |ta | tb| as the fraction <<inter, union>>; <<0, 1>> is 0.0
TokenRatio(ta, tb) ==
    IF ta = {} \/ tb = {} THEN <<0, 1>>
    ELSE <<Cardinality(ta \cap tb), Cardinality(ta \cup tb)>>

jaccard(a, b) == TokenRatio(tokens(a), tokens(b))

\* the fraction j is >= pct / 100
RatioAtLeast(j, pct) == j[1] * 100 >= pct * j[2]

\* jaccard(a, b) >= pct / 100
JaccardAtLeast(a, b, pct) == RatioAtLeast(jaccard(a, b), pct)

(***************************************************************************)
(* parse_extinf, candidate_pairs_from_display                              *)
(***************************************************************************)
EXTINF_TAG == <<"#","E","X","T","I","N","F">>

\* index of the last character of the maximal run of characters satisfying
\* \s (space = TRUE) or \d (space = FALSE) that starts at p; p - 1 if empty
RECURSIVE RunEnd(_, _, _)
RunEnd(s, p, space) ==
    IF p <= Len(s) /\ (IF space THEN IsSpace(s[p]) ELSE IsDigit(s[p]))
    THEN RunEnd(s, p + 1, space)
    ELSE p - 1

\* the groups of the match, the digits lying at d1..d2 of s and the comma at c
ExtinfGroups(s, neg, d1, d2, c) ==
    IF StartsWith(s, EXTINF_TAG \o <<":">>) /\ d2 >= d1 /\ c <= Len(s) /\ s[c] = ","
    THEN <<Some(IF neg THEN 0 - DigitsValue(Slice(s, d1, d2))
                ELSE DigitsValue(Slice(s, d1, d2))),
           Strip(Slice(s, RunEnd(s, c + 1, TRUE) + 1, Len(s)))>>
    ELSE <<None, None>>

ExtinfDigits(s, neg, d1) ==
    ExtinfGroups(s, neg, d1, RunEnd(s, d1, FALSE),
                 RunEnd(s, RunEnd(s, d1, FALSE) + 1, TRUE) + 1)

ExtinfSign(s, p0) ==
    IF p0 <= Len(s) /\ s[p0] = "-" THEN ExtinfDigits(s, TRUE, p0 + 1)
    ELSE ExtinfDigits(s, FALSE, p0)

\* re.match(r"#EXTINF:(-?\d+)\s*,\s*(.*)$", line.strip()); returns
\* <<dur, disp>>, dur an optional integer
parse_extinf(line) == ExtinfSign(Strip(line), Len(EXTINF_TAG) + 2)

\* end of the match of \s+-\s+ starting at position p, 0 if none
DashSepEnd(s, p) ==
    LET a == RunEnd(s, p, TRUE)
    IN  IF a >= p /\ a + 2 <= Len(s) /\ s[a + 1] = "-" /\ IsSpace(s[a + 2])
        THEN RunEnd(s, a + 2, TRUE)
        ELSE 0

\* re.split(r"\s+-\s+", s): the parts, scanning from p with the current part
\* starting at start
RECURSIVE SplitDash(_, _, _)
SplitDash(s, start, p) ==
    IF p > Len(s) THEN <<Slice(s, start, Len(s))>>
    ELSE LET e == DashSepEnd(s, p)
         IN  IF e > 0 THEN <<Slice(s, start, p - 1)>> \o SplitDash(s, e + 1, e + 1)
             ELSE SplitDash(s, start, p + 1)

\* [x for x in xs if x], order kept
NonEmpty(xs) ==
    LET Keep(x) == x # <<>>
    IN  SelectSeq(xs, Keep)

\* the "De-dup while preserving order" loop
RECURSIVE DedupPairs(_, _)
DedupPairs(pairs, out) ==
    IF pairs = <<>> THEN out
    ELSE LET pr == Head(pairs)
         IN  IF pr[1] = None \/ pr \in Range(out)
             THEN DedupPairs(Tail(pairs), out)
             ELSE DedupPairs(Tail(pairs), Append(out, pr))

DASH_JOIN == <<" ", "-", " ">>

\* the pairs generated from the normalised parts
PairsOf(parts, n) ==
    IF n = 0 THEN <<>>
    ELSE IF n = 1 THEN << <<parts[1], None>> >>
    ELSE IF n = 2 THEN << <<parts[1], parts[2]>>, <<parts[2], parts[1]>> >>
    ELSE << <<parts[2], parts[1]>>,
            <<Join(DASH_JOIN, Tail(parts)), parts[1]>>,
            <<Join(DASH_JOIN, Slice(parts, 1, n - 1)), parts[n]>>,
            <<Join(DASH_JOIN, parts), None>>,
            <<Join(DASH_JOIN, Slice(parts, 1, n - 1)), None>>,
            <<parts[2], None>> >>

StripEach(xs) == [k \in 1..Len(xs) |-> Strip(xs[k])]

NormEach(xs) == [k \in 1..Len(xs) |-> norm(xs[k])]

PairsOfParts(parts) == DedupPairs(PairsOf(parts, Len(parts)), <<>>)

\* list of <<title, artist>>, artist None when absent
candidate_pairs_from_display(disp) ==
    IF disp = None THEN <<>>
    ELSE PairsOfParts(NonEmpty(NormEach(NonEmpty(StripEach(
             SplitDash(Strip(SubDashes(disp)), 1, 1))))))

(***************************************************************************)
(* The duration buckets and find_matches                                   *)
(***************************************************************************)
DUR_TOL_DEFAULT == 2

\* one item of the index file after the normalisation of the bucket loop
NormItem(it) ==
    [title |-> norm(it.title), artist |-> norm(it.artist),
     duration |-> it.duration, path |-> it.path]

\* the  if not title or not artist or dur is None or not path: continue  test
Bucketed(it) ==
    /\ norm(it.title) # None
    /\ norm(it.artist) # None
    /\ it.duration # None
    /\ it.path # None

\* the normalised items by duration, in index order
BucketsOf(items) ==
    [d \in {items[k].duration : k \in 1..Len(items)} |->
        LET Is(x) == x.duration = d IN SelectSeq(items, Is)]

BucketItems(its) ==
    [k \in 1..Len(its) |-> [NormItem(its[k]) EXCEPT !.duration = its[k].duration[1]]]

\* by_dur: duration -> the normalised items of that duration, in index order
BuildByDur(index) == BucketsOf(BucketItems(SelectSeq(index, Bucketed)))

\* by_dur.get(d, [])
BucketGet(bd, d) == IF d \in DOMAIN bd THEN bd[d] ELSE <<>>

\* variant of Candidates: range(lo, hi), the upper end left out
RECURSIVE CandidatesHalfOpen(_, _, _)
CandidatesHalfOpen(bd, lo, hi) ==
    IF lo >= hi THEN <<>> ELSE BucketGet(bd, lo) \o CandidatesHalfOpen(bd, lo + 1, hi)

\* variant of Candidates: range(lo, hi + 2), one second past the window
RECURSIVE CandidatesWider(_, _, _)
CandidatesWider(bd, lo, hi) ==
    IF lo > hi + 1 THEN <<>> ELSE BucketGet(bd, lo) \o CandidatesWider(bd, lo + 1, hi)

\* for d in range(lo, hi + 1): cand.extend(by_dur.get(d, []))
RECURSIVE Candidates(_, _, _)
Candidates(bd, lo, hi) ==
    IF lo > hi THEN <<>> ELSE BucketGet(bd, lo) \o Candidates(bd, lo + 1, hi)

\* Stage 1
ExactTier(cand, title_n, artist_n) ==
    LET Is(s) == s.title = title_n /\ (artist_n = None \/ s.artist = artist_n)
    IN  SelectSeq(cand, Is)

FUZZY_WITH_ARTIST == 85

FUZZY_TITLE_ONLY == 90

\* variant of FuzzyTier: the artist of the candidate is not compared
FuzzyTierAnyArtist(cand, title_n, artist_n) ==
    LET Is(s) ==
            IF artist_n # None
            THEN JaccardAtLeast(s.title, title_n, FUZZY_WITH_ARTIST)
            ELSE JaccardAtLeast(s.title, title_n, FUZZY_TITLE_ONLY)
    IN  SelectSeq(cand, Is)

\* Stage 2
FuzzyTier(cand, title_n, artist_n) ==
    LET Is(s) ==
            IF artist_n # None
            THEN s.artist = artist_n /\ JaccardAtLeast(s.title, title_n, FUZZY_WITH_ARTIST)
            ELSE JaccardAtLeast(s.title, title_n, FUZZY_TITLE_ONLY)
    IN  SelectSeq(cand, Is)

\* variant of MatchTiers: stage 2 also runs after a non-empty stage 1
MatchTiersFallThrough(cand, exact, title_n, artist_n) ==
    LET FuzzyOnly(s) == s.title # title_n
    IN  IF cand = <<>> \/ title_n = None THEN <<>>
        ELSE exact \o SelectSeq(FuzzyTier(cand, title_n, artist_n), FuzzyOnly)

\* the stages of find_matches on the candidate list cand
MatchTiers(cand, exact, title_n, artist_n) ==
    IF cand = <<>> \/ title_n = None THEN <<>>
    ELSE IF Len(exact) >= 1 THEN exact
    ELSE FuzzyTier(cand, title_n, artist_n)

MatchAmong(cand, title_n, artist_n) ==
    MatchTiers(cand, ExactTier(cand, title_n, artist_n), title_n, artist_n)

find_matches(bd, dur_tol, title_n, artist_n, dur) ==
    MatchAmong(Candidates(bd, dur - dur_tol, dur + dur_tol), title_n, artist_n)

(***************************************************************************)
(* core/runner.py: keys, report rows, status classes                       *)
(***************************************************************************)
\* str(n)
RECURSIVE StrOfNat(_)
StrOfNat(n) ==
    IF n < 10 THEN <<DigitSeq[n + 1]>>
    ELSE StrOfNat(n \div 10) \o <<DigitSeq[(n % 10) + 1]>>

StrOfInt(n) == IF n < 0 THEN <<"-">> \o StrOfNat(0 - n) ELSE StrOfNat(n)

\* int(text) inside try/except: -1 for a text that is not a decimal integer
IntOrMinusOne(text) ==
    LET t == Strip(text)
        neg == t # <<>> /\ t[1] = "-"
        ds == IF t # <<>> /\ t[1] \in {"-", "+"} THEN Tail(t) ELSE t
    IN  IF ds # <<>> /\ \A k \in 1..Len(ds) : IsDigit(ds[k])
        THEN (IF neg THEN 0 - DigitsValue(ds) ELSE DigitsValue(ds))
        ELSE 0 - 1

PREFIX_TMP == <<"_","_","t","m","p","_","f","i","x","e","d","_">>

PREFIX_DRAFT == <<"d","r","a","f","t","_","f","i","x","e","d","_">>

PREFIX_FIXED == <<"f","i","x","e","d","_">>

SUFFIX_SELECTED == <<"_","s","e","l","e","c","t","e","d">>

StripPrefix(s, p) == IF StartsWith(s, p) THEN Slice(s, Len(p) + 1, Len(s)) ELSE s

StripSuffix(s, p) == IF EndsWith(s, p) THEN Slice(s, 1, Len(s) - Len(p)) ELSE s

\* stem.strip() if that is non-empty, else playlist_path.stem
KeyOrStem(stripped, stem) == IF stripped # <<>> THEN stripped ELSE stem

\* variant of canonical_key: the suffix "_selected" is left in place
CanonicalKeyPrefixOnly(stem) ==
    KeyOrStem(Strip(StripPrefix(StripPrefix(StripPrefix(stem,
                  PREFIX_TMP), PREFIX_DRAFT), PREFIX_FIXED)),
              stem)

\* canonical_key of a playlist, given as the stem of its file name
canonical_key(stem) ==
    KeyOrStem(Strip(StripSuffix(StripPrefix(StripPrefix(StripPrefix(stem,
                  PREFIX_TMP), PREFIX_DRAFT), PREFIX_FIXED), SUFFIX_SELECTED)),
              stem)

\* export_path_for: the stem of fixed_{key}_selected.m3u
export_stem_for(stem) == PREFIX_FIXED \o canonical_key(stem) \o SUFFIX_SELECTED

\* the stem of the working copy __tmp_fixed_{key}.m3u of repair_playlists
tmp_stem_for(stem) == PREFIX_TMP \o canonical_key(stem)

\* r.get(k): None for a column the row does not have
RGet(r, k) == IF k \in DOMAIN r THEN r[k] ELSE None

\* a or b
Or(a, b) == IF a # None THEN a ELSE b

\* the row_index _read_report_rows gives row number n (0-based)
RowIndexOf(r, n) ==
    IF RGet(r, "row_index") = None THEN StrOfNat(n) ELSE Strip(r["row_index"])

\* _read_report_rows on the rows of a report file; r["_i"] = i is kept as
\* the text str(i)
read_report_rows(csv_rows) ==
    [n \in 1..Len(csv_rows) |->
        [c \in DOMAIN csv_rows[n] \cup {"row_index", "_i"} |->
            IF c = "row_index" THEN RowIndexOf(csv_rows[n], n - 1)
            ELSE IF c = "_i" THEN StrOfNat(n - 1)
            ELSE csv_rows[n][c]]]

RESOLVED_KEYWORDS ==
    {<<"K","E","P","T">>, <<"R","E","P","A","I","R","E","D">>, <<"F","I","X","E","D">>, <<"O","K">>, <<"D","O","N","E">>, <<"S","U","C","C","E","S","S">>, <<"R","E","S","O","L","V">>}

AMBIGUOUS_KEYWORDS ==
    {<<"A","M","B","I","G">>, <<"M","U","L","T","I">>, <<"C","O","N","F","L","I","C","T">>, <<"D","U","P","L","I","C">>, <<"C","A","N","D","I","D","A","T","E">>, <<"M","U","L","T","I","P","L","E">>}

FAILED_KEYWORDS ==
    {<<"F","A","I","L">>, <<"N","O","T","_","F","O","U","N","D">>, <<"N","O","T","F","O","U","N","D">>, <<"M","I","S","S","I","N","G">>, <<"M","I","S","S">>, <<"E","R","R","O","R">>, <<"E","R","R">>}

\* any(k in st for k in words)
AnyIn(words, st) == \E w \in words : Contains(st, w)

\* variant of ClassOf: the failed keywords are tried before the ambiguous ones
ClassOfFailedFirst(st) ==
    IF st = <<>> THEN ""
    ELSE IF AnyIn(RESOLVED_KEYWORDS, st) THEN "RESOLVED"
    ELSE IF AnyIn(FAILED_KEYWORDS, st) THEN "FAILED"
    ELSE IF AnyIn(AMBIGUOUS_KEYWORDS, st) THEN "AMBIGUOUS"
    ELSE ""

ClassOf(st) ==
    IF st = <<>> THEN ""
    ELSE IF AnyIn(RESOLVED_KEYWORDS, st) THEN "RESOLVED"
    ELSE IF AnyIn(AMBIGUOUS_KEYWORDS, st) THEN "AMBIGUOUS"
    ELSE IF AnyIn(FAILED_KEYWORDS, st) THEN "FAILED"
    ELSE ""

\* classify_status: "RESOLVED", "AMBIGUOUS", "FAILED" or "" (unknown)
classify_status(st) == ClassOf(Upper(Strip(st)))

\* is_resolved_status of export_fixed_multi
is_resolved_status(st) == AnyIn(RESOLVED_KEYWORDS, Upper(Strip(st)))

(***************************************************************************)
(* core/runner.py: candidates of a row, rows for the unresolved view       *)
(***************************************************************************)
\* the first position where p occurs in s
FirstIndex(s, p) == CHOOSE k \in 1..(Len(s) + 1) : OccursAt(s, p, k) /\ \A j \in 1..(k - 1) : ~OccursAt(s, p, j)

\* s.split(c), from position p on, cur the part read so far
RECURSIVE SplitOn(_, _, _, _)
SplitOn(s, c, p, cur) ==
    IF p > Len(s) THEN <<cur>>
    ELSE IF s[p] = c THEN <<cur>> \o SplitOn(s, c, p + 1, <<>>)
    ELSE SplitOn(s, c, p + 1, Append(cur, s[p]))

\* s.strip(c) for one character c
StripChar(s, c) ==
    LET keep == {k \in 1..Len(s) : s[k] # c}
    IN  IF keep = {} THEN <<>>
        ELSE Slice(s, CHOOSE a \in keep : \A k \in keep : a <= k,
                      CHOOSE b \in keep : \A k \in keep : b >= k)

\* Path(p).name of a POSIX path: the last component, "/" separating the
\* components, empty components and "." components dropped
PathName(p) ==
    LET Is(c) == c # <<>> /\ c # <<".">>
        parts == SelectSeq(SplitOn(p, "/", 1, <<>>), Is)
    IN  IF parts = <<>> THEN <<>> ELSE parts[Len(parts)]

CANDIDATES_MARK == <<"c","a","n","d","i","d","a","t","e","s",":">>

\* variant of AfterMark: the marker is not looked for
AfterMarkIgnored(notes, low) == notes

\* the text after "candidates:" when the marker is present
AfterMark(notes, low) ==
    IF Contains(low, CANDIDATES_MARK)
    THEN Strip(Slice(notes, FirstIndex(low, CANDIDATES_MARK) + Len(CANDIDATES_MARK), Len(notes)))
    ELSE notes

LooksLikePath(p, name) ==
    /\ p # <<>>
    /\ Contains(p, <<":", "\\">>) \/ Contains(p, <<"/">>) \/ Contains(p, <<"\\">>)
    /\ Contains(name, <<".">>) /\ Len(name) >= 3

UnquoteEach(parts) ==
    [k \in 1..Len(parts) |-> StripChar(StripChar(Strip(parts[k]), "\""), "'")]

KeepPaths(ps) == LET Is(p) == LooksLikePath(p, PathName(p)) IN SelectSeq(ps, Is)

CandidatesOfText(notes) ==
    IF notes = <<>> THEN <<>>
    ELSE KeepPaths(UnquoteEach(SplitOn(AfterMark(notes, Lower(notes)), "|", 1, <<>>)))

\* _parse_candidates_from_notes
parse_candidates_from_notes(notes) == CandidatesOfText(Strip(notes))

\* int(str(r.get("row_index") or r.get("_i") or -1).strip()), -1 on failure,
\* as the text the tables and the selection maps use: str(row_index)
RowIdOf(r) ==
    IF RGet(r, "row_index") # None THEN StrOfInt(IntOrMinusOne(r["row_index"]))
    ELSE IF RGet(r, "_i") \notin {None, <<"0">>} THEN StrOfInt(IntOrMinusOne(r["_i"]))
    ELSE StrOfInt(0 - 1)

\* the row dict _classify_for_ui builds for report row r
UiRow(r, playlist, pl_key) ==
    [playlist |-> playlist, pl_key |-> pl_key, row_index |-> RowIdOf(r),
     extinf_display |-> Strip(Or(RGet(r, "extinf_display"), RGet(r, "extinf"))),
     original_path |-> Strip(Or(RGet(r, "original_path"), RGet(r, "original"))),
     notes |-> Strip(RGet(r, "notes")),
     candidates |-> parse_candidates_from_notes(Strip(RGet(r, "notes")))]

UiRowsOfKind(report, playlist, pl_key, kind) ==
    LET Is(r) == classify_status(RGet(r, "status")) = kind
        picked == SelectSeq(report, Is)
    IN  [k \in 1..Len(picked) |-> UiRow(picked[k], playlist, pl_key)]

\* variant of classify_for_ui: a row of unknown status goes to the failed rows
ClassifyUnknownAsFailed(report, playlist) ==
    <<UiRowsOfKind(report, playlist, canonical_key(playlist), "AMBIGUOUS"),
      UiRowsOfKind(report, playlist, canonical_key(playlist), "FAILED")
          \o UiRowsOfKind(report, playlist, canonical_key(playlist), "")>>

\* _classify_for_ui: <<ambiguous, failed>>
classify_for_ui(report, playlist) ==
    <<UiRowsOfKind(report, playlist, canonical_key(playlist), "AMBIGUOUS"),
      UiRowsOfKind(report, playlist, canonical_key(playlist), "FAILED")>>

(***************************************************************************)
(* core/runner.py: export_fixed_multi, one job                             *)
(***************************************************************************)
FINAL_KEYS ==
    <<"written_path", "written", "final_path", "final", "resolved_path", "resolved",
      "picked_path", "picked", "chosen_path", "chosen", "selected_path", "selected",
      "output_path", "output", "result_path", "result", "target_path", "target",
      "matched_path", "matched">>

RECURSIVE PickFrom(_, _, _)
PickFrom(rr, keys, k) ==
    IF k > Len(keys) THEN <<>>
    ELSE IF Strip(RGet(rr, keys[k])) # <<>> THEN Strip(RGet(rr, keys[k]))
    ELSE PickFrom(rr, keys, k + 1)

\* pick_final: the first non-blank value among the FINAL_KEYS columns
pick_final(rr) == PickFrom(rr, FINAL_KEYS, 1)

\* d.get(k, {}) or {}  and  d.get(k, []) : the empty value for a missing key
MapGet(d, k) == IF k \in DOMAIN d THEN d[k] ELSE <<>>

\* selections.get(row_index) if row_index else None
SelGet(selections, row_index) ==
    IF row_index # <<>> THEN MapGet(selections, row_index) ELSE None

\* variant of PathLine: a final path of a resolved row wins over the selection
PathLineFinalFirst(chosen, status, final_path, orig) ==
    IF is_resolved_status(status) /\ final_path # <<>> THEN final_path
    ELSE IF chosen # None THEN chosen
    ELSE orig

\* the path line of a row: chosen, else by status the final path or orig
PathLine(chosen, status, final_path, orig) ==
    IF chosen # None THEN chosen
    ELSE IF is_resolved_status(status)
    THEN (IF final_path # <<>> THEN final_path ELSE orig)
    ELSE orig

ExportPathOf(r, selections) ==
    PathLine(SelGet(selections, Strip(RGet(r, "row_index"))),
             Strip(RGet(r, "status")),
             pick_final(r),
             Strip(Or(RGet(r, "original_path"), RGet(r, "original"))))

ExtinfLineOf(r) == Strip(Or(RGet(r, "extinf_line"), RGet(r, "extinf")))

LinesOfRow(extinf_line, path_line) ==
    IF extinf_line # <<>> THEN <<extinf_line, path_line>> ELSE <<path_line>>

RECURSIVE ExportLines(_, _)
ExportLines(rows, selections) ==
    IF rows = <<>> THEN <<>>
    ELSE LinesOfRow(ExtinfLineOf(Head(rows)), ExportPathOf(Head(rows), selections))
         \o ExportLines(Tail(rows), selections)

M3U_HEADER == <<"#","E","X","T","M","3","U">>

\* the lines written to out_m3u for one job; the file is the lines joined
\* by "\n" with a final "\n"
ExportedFile(rows, selections) == <<M3U_HEADER>> \o ExportLines(rows, selections)

(***************************************************************************)
(* ui/main_window.py: the rows of the two views                            *)
(***************************************************************************)
\* _is_exported_playlist, on the stem of the file name
IsExportedStem(stem) ==
    \/ StartsWith(stem, PREFIX_FIXED)
    \/ StartsWith(stem, PREFIX_DRAFT)
    \/ EndsWith(stem, SUFFIX_SELECTED)
    \/ Contains(stem, SUFFIX_SELECTED)

is_exported_playlist(stem) == IsExportedStem(Lower(stem))

\* {**disk_sel, **mem_sel}
MergedSel(disk_sel, mem_sel) ==
    [k \in DOMAIN disk_sel \cup DOMAIN mem_sel |->
        IF k \in DOMAIN mem_sel THEN mem_sel[k] ELSE disk_sel[k]]

\* d[k] = v
MapPut(d, k, v) == [x \in DOMAIN d \cup {k} |-> IF x = k THEN v ELSE d[x]]

HideRows(rows, sel) ==
    LET Shown(r) == r.row_index \notin DOMAIN sel IN SelectSeq(rows, Shown)

TAG_SELECTED == <<"[","S","E","L","E","C","T","E","D","]">>

TAG_RESCUED == <<"[","R","E","S","C","U","E","D","]">>

TagRows(rows, sel, tag) ==
    [k \in 1..Len(rows) |->
        IF rows[k].row_index \in DOMAIN sel
        THEN [rows[k] EXCEPT !.notes = tag \o <<" ">> \o sel[rows[k].row_index]]
        ELSE rows[k]]

\* steps A and B of _build_unresolved_rows on the rows of one pane
PaneUnresolved(rows, disk_sel, mem_sel, saved, tag) ==
    IF saved THEN HideRows(HideRows(rows, disk_sel), mem_sel)
    ELSE TagRows(HideRows(rows, disk_sel), mem_sel, tag)

\* disk_sel of _build_unresolved_rows and _build_resolved_rows
DiskSel(files, pl) ==
    IF is_exported_playlist(pl) THEN MapGet(files, canonical_key(pl)) ELSE <<>>

\* the playlist is left out of both views
SkippedPlaylist(pl, rrbk, repaired_keys) ==
    \/ ~is_exported_playlist(pl) /\ canonical_key(pl) \notin repaired_keys
    \/ MapGet(rrbk, canonical_key(pl)) = <<>>

\* self._selections_by_key after the playlist: merged_sel stored when exported
StoreMerged(sel, pl, key, merged) ==
    IF is_exported_playlist(pl) /\ merged # <<>> THEN MapPut(sel, key, merged) ELSE sel

UnresolvedOfPlaylist(classified, disk_sel, mem_sel, saved) ==
    <<PaneUnresolved(classified[1], disk_sel, mem_sel, saved, TAG_SELECTED),
      PaneUnresolved(classified[2], disk_sel, mem_sel, saved, TAG_RESCUED)>>

\* the rows of a playlist appended, the merged selections stored
WithPlaylist(acc, panes, pl, key, merged) ==
    <<acc[1] \o panes[1], acc[2] \o panes[2], StoreMerged(acc[3], pl, key, merged)>>

\* _build_unresolved_rows: <<amb_all, fail_all, self._selections_by_key>>
RECURSIVE BuildUnresolved(_, _, _, _, _, _)
BuildUnresolved(pls, rrbk, files, repaired_keys, saved, acc) ==
    IF pls = <<>> THEN acc
    ELSE IF SkippedPlaylist(Head(pls), rrbk, repaired_keys)
    THEN BuildUnresolved(Tail(pls), rrbk, files, repaired_keys, saved, acc)
    ELSE BuildUnresolved(Tail(pls), rrbk, files, repaired_keys, saved,
            WithPlaylist(acc,
                         UnresolvedOfPlaylist(
                             classify_for_ui(rrbk[canonical_key(Head(pls))], Head(pls)),
                             DiskSel(files, Head(pls)),
                             MapGet(acc[3], canonical_key(Head(pls))),
                             canonical_key(Head(pls)) \in saved),
                         Head(pls), canonical_key(Head(pls)),
                         MergedSel(DiskSel(files, Head(pls)),
                                   MapGet(acc[3], canonical_key(Head(pls))))))

AMBIG_STATUSES ==
    {<<"A","M","B","I","G","U","O","U","S">>, <<"M","U","L","T","I","_","M","A","T","C","H">>, <<"M","U","L","T","I","P","L","E","_","M","A","T","C","H">>, <<"C","O","N","F","L","I","C","T">>, <<"D","U","P","L","I","C","A","T","E">>}

FAIL_STATUSES == {<<"F","A","I","L","E","D">>, <<"N","O","T","_","F","O","U","N","D">>, <<"M","I","S","S","I","N","G">>, <<"E","R","R","O","R">>}

RESOLVED_STATUSES ==
    {<<"K","E","P","T">>, <<"R","E","P","A","I","R","E","D">>, <<"F","I","X","E","D">>, <<"O","K">>, <<"D","O","N","E">>, <<"S","U","C","C","E","S","S">>, <<"R","E","S","O","L","V","E","D">>}

TAG_MANUAL == <<"[","M","A","N","U","A","L","]">>

TAG_AUTO == <<"[","A","U","T","O","]">>

\* the pane a resolved row is put in
BucketOf(status, cands) ==
    IF status \in AMBIG_STATUSES THEN "AMBIGUOUS"
    ELSE IF status \in FAIL_STATUSES THEN "FAILED"
    ELSE IF Len(cands) >= 2 THEN "AMBIGUOUS"
    ELSE "FAILED"

\* f"{source_tag} {after} {status_tag}".strip()
ResolvedNotes(manual, after, status) ==
    Strip((IF manual THEN TAG_MANUAL ELSE TAG_AUTO) \o <<" ">> \o after \o <<" ">>
          \o (IF status # <<>> THEN <<"(","s","t","a","t","u","s","=">> \o status \o <<")">> ELSE <<>>))

\* the row _build_resolved_rows shows for report row rr
ResolvedRow(rr, pl, row_index, manual, after, status) ==
    [playlist |-> pl, pl_key |-> canonical_key(pl),
     row_index |-> IF row_index # <<>> THEN row_index ELSE Strip(RGet(rr, "_i")),
     extinf_display |-> Strip(Or(RGet(rr, "extinf_display"), RGet(rr, "extinf"))),
     original_path |-> Strip(Or(RGet(rr, "original_path"), RGet(rr, "original"))),
     notes |-> ResolvedNotes(manual, after, status),
     candidates |-> parse_candidates_from_notes(Strip(RGet(rr, "notes")))]

\* manual = bool(row_index and row_index in selections)
IsManual(rr, selections) ==
    Strip(RGet(rr, "row_index")) # <<>> /\ Strip(RGet(rr, "row_index")) \in DOMAIN selections

AfterPath(rr, selections) ==
    IF IsManual(rr, selections) THEN Strip(selections[Strip(RGet(rr, "row_index"))])
    ELSE Or(pick_final(rr), Strip(Or(RGet(rr, "original_path"), RGet(rr, "original"))))

IsResolvedRow(rr, selections) ==
    IsManual(rr, selections) \/ Upper(Strip(RGet(rr, "status"))) \in RESOLVED_STATUSES

ResolvedPane(report, pl, selections, pane) ==
    LET Is(rr) ==
            /\ IsResolvedRow(rr, selections)
            /\ BucketOf(Upper(Strip(RGet(rr, "status"))),
                        parse_candidates_from_notes(Strip(RGet(rr, "notes")))) = pane
        picked == SelectSeq(report, Is)
    IN  [k \in 1..Len(picked) |->
            ResolvedRow(picked[k], pl, Strip(RGet(picked[k], "row_index")),
                        IsManual(picked[k], selections), AfterPath(picked[k], selections),
                        Upper(Strip(RGet(picked[k], "status"))))]

\* _build_resolved_rows: <<amb_rows, fail_rows>>
RECURSIVE BuildResolved(_, _, _, _, _, _)
BuildResolved(pls, rrbk, files, repaired_keys, sel, acc) ==
    IF pls = <<>> THEN acc
    ELSE IF SkippedPlaylist(Head(pls), rrbk, repaired_keys)
    THEN BuildResolved(Tail(pls), rrbk, files, repaired_keys, sel, acc)
    ELSE BuildResolved(Tail(pls), rrbk, files, repaired_keys, sel,
            <<acc[1] \o ResolvedPane(rrbk[canonical_key(Head(pls))], Head(pls),
                                     MergedSel(DiskSel(files, Head(pls)),
                                               MapGet(sel, canonical_key(Head(pls)))),
                                     "AMBIGUOUS"),
              acc[2] \o ResolvedPane(rrbk[canonical_key(Head(pls))], Head(pls),
                                     MergedSel(DiskSel(files, Head(pls)),
                                               MapGet(sel, canonical_key(Head(pls)))),
                                     "FAILED")>>)

\* the rows of the active view and self._selections_by_key after building them
BuildView(mode, pls, rrbk, files, repaired_keys, saved, sel) ==
    IF mode = "RESOLVED"
    THEN BuildResolved(pls, rrbk, files, repaired_keys, sel, <<<<>>, <<>>>>) \o <<sel>>
    ELSE BuildUnresolved(pls, rrbk, files, repaired_keys, saved, <<<<>>, <<>>, sel>>)

\* MainWindow._norm: strip, lower, U+3000 to space, whitespace runs to one space
UiNorm(s) == Strip(CollapseSpace(Lower(Strip(s))))

\* the extension of a playlist file name
M3U_EXT == <<".","m","3","u">>

\* hit(text) of _row_matches_query
Hit(text, q) == UiNorm(text) # <<>> /\ Contains(UiNorm(text), q)

AnyHit(texts, q) == \E k \in 1..Len(texts) : Hit(texts[k], q) \/ Hit(PathName(texts[k]), q)

\* _row_matches_query for a query q that is already normalised
row_matches_query(r, q) ==
    \/ q = <<>>
    \/ Hit(r.playlist \o M3U_EXT, q)
    \/ Hit(r.extinf_display, q)
    \/ AnyHit(<<r.original_path>>, q)
    \/ Hit(r.notes, q)
    \/ AnyHit(r.candidates, q)

\* the rows _apply_search_filter leaves in a table
Filtered(rows, q) == LET Is(r) == row_matches_query(r, q) IN SelectSeq(rows, Is)

(***************************************************************************)
(* ui/main_window.py: _reload_reports_cache                                *)
(***************************************************************************)
RECURSIVE ReloadReports(_, _, _)
ReloadReports(pls, files, acc) ==
    IF pls = <<>> THEN acc
    ELSE IF MapGet(files, canonical_key(Head(pls))) = <<>>
    THEN ReloadReports(Tail(pls), files, acc)
    ELSE ReloadReports(Tail(pls), files,
            MapPut(acc, canonical_key(Head(pls)),
                   read_report_rows(files[canonical_key(Head(pls))])))

(***************************************************************************)
(* core/vendor/playlist_scan_safe.py: scan_folder                          *)
(*                                                                         *)
(* A file of the tree is [path, easy, raw]: its path and what              *)
(* File(path, easy=True) and File(path, easy=False) do on it.  Each of the *)
(* two is [kind |-> "raise"], [kind |-> "none"] (File returns None) or     *)
(* [kind |-> "audio", length, tags]: length is None when info has no       *)
(* length and Some(t) for a length of t tenths of a second, and tags maps  *)
(* a tag name to the list of its values.                                   *)
(***************************************************************************)
SUPPORTED_EXTS ==
    {<<".","f","l","a","c">>, <<".","a","l","a","c">>, <<".","m","4","a">>, <<".","m","p","4">>, <<".","a","a","c">>, <<".","m","p","3">>, <<".","o","g","g">>, <<".","o","p","u","s">>,
     <<".","w","a","v">>, <<".","a","i","f">>, <<".","a","i","f","f">>, <<".","a","i","f","c">>, <<".","a","p","e">>, <<".","w","v">>, <<".","d","s","f">>, <<".","d","f","f">>}

GENERIC_PATH_TOKENS ==
    {<<"m","u","s","i","c">>, <<"i","t","u","n","e","s">>, <<"i","t","u","n","e","s"," ","m","e","d","i","a">>, <<"m","e","d","i","a">>, <<"h","i","-","r","e","s">>, <<"h","i","r","e","s">>,
     <<"l","o","s","s","l","e","s","s">>, <<"l","o","s","s","y">>, <<"d","o","w","n","l","o","a","d","s">>, <<"d","o","w","n","l","o","a","d">>, <<"a","l","b","u","m">>, <<"a","l","b","u","m","s">>,
     <<"d","i","s","c">>, <<"c","d">>, <<"c","d","1">>, <<"c","d","2">>, <<"c","d","3">>, <<"d","e","l","u","x","e">>, <<"e","d","i","t","i","o","n">>,
     <<"r","e","m","a","s","t","e","r">>, <<"r","e","m","a","s","t","e","r","e","d">>, <<"s","i","n","g","l","e">>, <<"s","i","n","g","l","e","s">>, <<"e","p">>, <<"c","o","m","p","i","l","a","t","i","o","n","s">>,
     <<"v","a","r","i","o","u","s"," ","a","r","t","i","s","t","s">>, <<"v","a">>, <<"u","n","k","n","o","w","n">>, <<"u","n","k","n","o","w","n"," ","a","r","t","i","s","t">>}

\* name.rfind("."), 1-based, 0 when the name has no "."
LastDot(name) ==
    LET dots == {k \in 1..Len(name) : name[k] = "."}
    IN  IF dots = {} THEN 0 ELSE CHOOSE a \in dots : \A k \in dots : a >= k

\* a suffix is split off when the last "." is neither first nor last
HasSuffix(name) == 1 < LastDot(name) /\ LastDot(name) < Len(name)

\* Path(name).suffix
Suffix(name) == IF HasSuffix(name) THEN Slice(name, LastDot(name), Len(name)) ELSE <<>>

\* Path(name).stem
Stem(name) == IF HasSuffix(name) THEN Slice(name, 1, LastDot(name) - 1) ELSE name

\* [\s._-]
IsPrefixSep(c) == IsSpace(c) \/ c \in {".", "_", "-"}

\* the position after the run of characters [\s._-] that starts at p
RECURSIVE SepRunEnd(_, _)
SepRunEnd(s, p) ==
    IF p <= Len(s) /\ IsPrefixSep(s[p]) THEN SepRunEnd(s, p + 1) ELSE p

\* \(?\d{1,3}\)?[\s._-]+ matched at p: the position after the match, 0 when
\* there is no match (the run of digits is taken whole, so one of more than 3
\* digits matches nothing)
TrackGroupEnd(s, p) ==
    LET a == IF p <= Len(s) /\ s[p] = "(" THEN p + 1 ELSE p
        b == RunEnd(s, a, FALSE) + 1
        c == IF b <= Len(s) /\ s[b] = ")" THEN b + 1 ELSE b
        d == SepRunEnd(s, c)
    IN  IF b - a \in 1..3 /\ d > c THEN d ELSE 0

\* the position after the groups matched one after the other from p on
RECURSIVE TrackGroupsEnd(_, _)
TrackGroupsEnd(s, p) ==
    IF TrackGroupEnd(s, p) = 0 THEN p ELSE TrackGroupsEnd(s, TrackGroupEnd(s, p))

\* TRACK_PREFIX_RE.sub("", s): ^\s*(\(?\d{1,3}\)?[\s._-]+)+ removed
SubTrackPrefix(s) ==
    LET q == FirstKept(s, 1)
    IN  IF TrackGroupEnd(s, q) = 0 THEN s
        ELSE Slice(s, TrackGroupsEnd(s, q), Len(s))

clean_filename_title(stem) == Strip(CollapseSpace(Strip(SubTrackPrefix(Strip(stem)))))

normalize_token(t) == CollapseSpace(Lower(Strip(t)))

\* re.fullmatch(r"\d+", pt)
AllDigits(pt) == pt # <<>> /\ \A k \in 1..Len(pt) : IsDigit(pt[k])

\* the part is passed over by guess_artist_from_path
PassedOver(pt) ==
    \/ pt = <<>>
    \/ normalize_token(pt) \in GENERIC_PATH_TOKENS
    \/ AllDigits(pt)
    \/ Len(pt) <= 2
    \/ Len(pt) = 4 /\ AllDigits(pt) /\ Slice(pt, 1, 2) \in {<<"1","9">>, <<"2","0">>}

\* the first part from position k down that is not passed over, stripped
RECURSIVE GuessFrom(_, _)
GuessFrom(parts, k) ==
    IF k < 1 THEN None
    ELSE IF PassedOver(Strip(parts[k])) THEN GuessFrom(parts, k - 1)
    ELSE Strip(parts[k])

\* path.parts of an absolute POSIX path: the root "/" and the components
PathParts(path) == <<<<"/">>>> \o NonEmpty(SplitOn(path, "/", 1, <<>>))

\* guess_artist_from_path: the parts without the file name, from the last one
guess_artist_from_path(path) ==
    GuessFrom(PathParts(path), Len(PathParts(path)) - 1)

\* _first(seq)
First(seq) == IF seq = <<>> THEN None ELSE seq[1]

\* tags.get(k)
TagGet(tags, k) == IF k \in DOMAIN tags THEN tags[k] ELSE <<>>

\* read_easy_tags: <<title, artist>>
read_easy_tags(audio) ==
    <<First(TagGet(audio.tags, "title")),
      Or(First(TagGet(audio.tags, "artist")), First(TagGet(audio.tags, "albumartist")))>>

\* get_any(keys): the value of the first key that is in tags
RECURSIVE GetAny(_, _)
GetAny(tags, keys) ==
    IF keys = <<>> THEN None
    ELSE IF Head(keys) \in DOMAIN tags THEN First(tags[Head(keys)])
    ELSE GetAny(tags, Tail(keys))

RAW_TITLE_KEYS == <<"TIT2", "TITLE", "(c)nam">>

RAW_ARTIST_KEYS == <<"TPE1", "ARTIST", "(c)ART">>

RAW_ALBUMARTIST_KEYS == <<"TPE2", "ALBUMARTIST", "aART", "(c)aRT">>

\* read_raw_tags: <<title, artist>>
read_raw_tags(audio) ==
    IF DOMAIN audio.tags = {} THEN <<None, None>>
    ELSE <<GetAny(audio.tags, RAW_TITLE_KEYS),
           Or(GetAny(audio.tags, RAW_ARTIST_KEYS), GetAny(audio.tags, RAW_ALBUMARTIST_KEYS))>>

\* round(t / 10) for t tenths: to the nearest integer, a half to the even one
RoundTenths(t) ==
    LET q == t \div 10
        r == t % 10
    IN  IF r < 5 THEN q
        ELSE IF r > 5 THEN q + 1
        ELSE IF q % 2 = 0 THEN q ELSE q + 1

\* get_duration_seconds: None when info has no length or the length is 0
get_duration_seconds(audio) ==
    IF audio.length = None \/ audio.length[1] = 0 THEN None
    ELSE Some(RoundTenths(audio.length[1]))

\* variant of IsTrue: the test is  audio is not None
IsNotNone(audio) == audio.kind = "audio"

\* if audio: the object File returned is true.  None is false, and so is a
\* mutagen FileType without tags: it is a mapping over its tags, and
\* a mapping is true when it has at least one key
IsTrue(audio) == audio.kind = "audio" /\ DOMAIN audio.tags # {}

\* title or artist
AnyTag(ta) == ta[1] # None \/ ta[2] # None

\* the state of the file loop after the easy pass: [dur, title, artist, meta_source]
AfterEasy(f) ==
    IF ~IsTrue(f.easy)
    THEN [dur |-> None, title |-> None, artist |-> None, meta_source |-> "none"]
    ELSE IF AnyTag(read_easy_tags(f.easy))
    THEN [dur |-> get_duration_seconds(f.easy), title |-> read_easy_tags(f.easy)[1],
          artist |-> read_easy_tags(f.easy)[2], meta_source |-> "easy_tag"]
    ELSE [dur |-> get_duration_seconds(f.easy), title |-> None, artist |-> None,
          meta_source |-> "none"]

\* after the raw pass, run when dur is None or meta_source is "none"
AfterRaw(f, m) ==
    IF ~(m.dur = None \/ m.meta_source = "none") \/ ~IsTrue(f.raw) THEN m
    ELSE LET dur == IF m.dur = None THEN get_duration_seconds(f.raw) ELSE m.dur
             ta == read_raw_tags(f.raw)
         IN  IF m.meta_source = "none" /\ AnyTag(ta)
             THEN [dur |-> dur, title |-> ta[1], artist |-> ta[2], meta_source |-> "raw_tag"]
             ELSE [m EXCEPT !.dur = dur]

\* if not title: the title is taken from the file name
WithTitle(f, m) ==
    IF m.title # None THEN m
    ELSE [m EXCEPT !.title = clean_filename_title(Stem(PathName(f.path))),
                   !.meta_source = IF m.meta_source = "none" THEN "filename" ELSE @]

\* if not artist: the artist is guessed from the path, when a guess is found
WithArtist(f, m) ==
    IF m.artist # None \/ guess_artist_from_path(f.path) = None THEN m
    ELSE [m EXCEPT !.artist = guess_artist_from_path(f.path),
                   !.meta_source = IF m.meta_source \in {"filename", "none"}
                                   THEN "path_guess" ELSE @]

\* the metadata of a supported file after the two passes
Probed(f) == AfterRaw(f, AfterEasy(f))

\* the index item of a supported file whose duration was found
ItemOf(f) ==
    LET m == WithArtist(f, WithTitle(f, Probed(f)))
    IN  [path |-> f.path, duration |-> m.dur, title |-> m.title, artist |-> m.artist,
         meta_source |-> m.meta_source]

\* Path(fn).suffix.lower() in SUPPORTED_EXTS
IsSupported(f) == Lower(Suffix(PathName(f.path))) \in SUPPORTED_EXTS

\* os.walk(root) reaches the file
IsUnder(root, f) == StartsWith(f.path, root \o <<"/">>)

\* scan_folder(root) on the files of the tree
scan_folder(root, files) ==
    LET Seen(f) == IsUnder(root, f) /\ IsSupported(f)
        Kept(f) == Probed(f).dur # None
        supported == SelectSeq(files, Seen)
        kept_files == SelectSeq(supported, Kept)
    IN  [root |-> root,
         scanned_supported |-> Len(supported),
         skipped_no_duration |-> Len(supported) - Len(kept_files),
         indexed |-> Len(kept_files),
         items |-> [k \in 1..Len(kept_files) |-> ItemOf(kept_files[k])]]

(***************************************************************************)
(* State                                                                   *)
(***************************************************************************)
VARIABLES
    \* repair_playlist: its inputs, locals and outputs
    lines,          \* f.readlines() of the playlist, each line with its "\n"
    music_index,    \* json.load of the index file
    fs,             \* the paths for which os.path.exists is true
    by_dur,         \* duration -> bucket
    i,              \* line index, 0-based
    out_lines, report_rows, all_matches,
    total, kept, repaired, ambiguous, failed,
    output_file, report_file,
    rpc,            \* position in repair_playlist: "idle", "load", "loop", "done"
    \* one call of find_matches
    q_title, q_artist, q_dur, q_tol, q_result,
    mpc,            \* "idle", "index", "call", "done"
    \* the reports folder: key -> rows of repair_report_{key}.csv, key ->
    \* map of selections_{key}.json, stem -> lines of an exported playlist
    report_files, selection_files, m3u_files,
    index_exists,   \* self.index_path.exists()
    \* the Worker and the runner function it runs
    worker_func,    \* "none", "scan", "repair", "export"
    worker_kwargs,  \* music_roots (scan), playlists (repair) or jobs (export)
    worker_cancelled,
    worker_pc,      \* "idle", "running", "finished", "failed"
    job_i,          \* the loop index of the runner function
    result,         \* the outputs of the TaskResult: "repair", "done", "scan", "none"
    \* MainWindow
    playlists,      \* the imported playlists, each the stem of its file name
    view_mode, search,
    selections_by_key, report_rows_by_key, session_repaired_keys, saved_keys,
    pending_save_keys, last_action, busy,
    ambiguous_rows_all, failed_rows_all, ambiguous_rows, failed_rows,
    active_target, active_pl_key, active_row_id,
    lst_candidates, \* the texts of the candidate list
    current_candidate,  \* the position of its current item, 0 for none
    \* one call of a function that reads and writes no state
    call_fn,        \* the name of the function, "none" when there is no call
    call_args,      \* its arguments
    call_ret,       \* what it returned
    call_pc,        \* "idle", "called", "returned"
    \* the music folders and scan_index
    tree,           \* the files under the music folders, in the order os.walk gives them
    music_roots,    \* MainWindow.music_roots
    scan_items, scan_stats,     \* items and stats of scan_index
    index_file,     \* the items of music_index.json
    stats_file      \* the content of music_index.stats.json, <<>> when there is none

repairVars ==
    <<lines, music_index, fs, by_dur, i, out_lines, report_rows, all_matches,
      total, kept, repaired, ambiguous, failed, output_file, report_file, rpc>>

matchVars == <<q_title, q_artist, q_dur, q_tol, q_result, mpc>>

diskVars == <<report_files, selection_files, m3u_files, index_exists>>

workerVars == <<worker_func, worker_kwargs, worker_cancelled, worker_pc, job_i, result>>

sessionVars ==
    <<playlists, report_rows_by_key, session_repaired_keys, saved_keys,
      pending_save_keys, last_action, busy>>

tableVars == <<ambiguous_rows_all, failed_rows_all, ambiguous_rows, failed_rows>>

activeVars == <<active_target, active_pl_key, active_row_id, lst_candidates, current_candidate>>

uiVars == <<sessionVars, view_mode, search, selections_by_key, tableVars, activeVars>>

appVars == <<diskVars, workerVars, uiVars>>

callVars == <<call_fn, call_args, call_ret, call_pc>>

scanVars == <<tree, music_roots, scan_items, scan_stats, index_file, stats_file>>

vars == <<repairVars, matchVars, appVars, callVars, scanVars>>

(***************************************************************************)
(* repair_playlist                                                         *)
(***************************************************************************)
S_KEPT == <<"K","E","P","T">>

S_REPAIRED == <<"R","E","P","A","I","R","E","D">>

S_AMBIGUOUS == <<"A","M","B","I","G","U","O","U","S">>

S_FAILED == <<"F","A","I","L","E","D">>

S_FAILED_NO_EXTINF == S_FAILED \o <<"_","N","O","_">> \o <<"E","X","T","I","N","F">>

NOTE_NO_EXTINF ==
    <<"n","o"," ","d","u","r","a","t","i","o","n"," ","o","r"," ",
      "d","i","s","p","l","a","y">>

NOTE_NO_MATCH == <<"n","o"," ","m","a","t","c","h">>

NOTE_SEP == <<" ", "|", " ">>

MAX_NOTE_CANDIDATES == 5

\* seen = {m["path"] for m in all_matches}; then every m of ms whose path is
\* not in seen is appended (seen is not updated while ms is walked)
AppendUnseen(acc, ms) ==
    LET seen == {acc[k].path : k \in 1..Len(acc)}
        Keep(m) == m.path \notin seen
    IN  acc \o SelectSeq(ms, Keep)

\* for (t, a) in pairs: ms = find_matches(t, a or None, dur); accumulate
RECURSIVE Accumulate(_, _, _, _, _, _)
Accumulate(bd, tol, pairs, dur, title_only, acc) ==
    IF pairs = <<>> THEN acc
    ELSE LET t == Head(pairs)[1]
             a == IF title_only THEN None ELSE Head(pairs)[2]
         IN  Accumulate(bd, tol, Tail(pairs), dur, title_only,
                        AppendUnseen(acc, find_matches(bd, tol, t, a, dur)))

\* variant of Fallback: the title-only pass is run after every first pass
FallbackAlways(bd, tol, pairs, dur, first) ==
    IF pairs # <<>> THEN Accumulate(bd, tol, pairs, dur, TRUE, first) ELSE first

\* the title-only pass, run when the first pass found nothing
Fallback(bd, tol, pairs, dur, first) ==
    IF first = <<>> /\ pairs # <<>>
    THEN Accumulate(bd, tol, pairs, dur, TRUE, <<>>)
    ELSE first

MatchPairs(bd, tol, pairs, dur) ==
    Fallback(bd, tol, pairs, dur, Accumulate(bd, tol, pairs, dur, FALSE, <<>>))

\* all_matches of one unit
AllMatches(bd, tol, disp, dur) ==
    MatchPairs(bd, tol, candidate_pairs_from_display(disp), dur)

Row(st, dur, disp, orig, written, notes) ==
    [status |-> st, extinf_duration |-> dur, extinf_display |-> disp,
     original_path |-> orig, written_path |-> written, notes |-> notes]

\* variant of MatchedRow: the first match is written whenever there is one
MatchedRowFirstOfMany(ms, dur, disp, original_path) ==
    IF Len(ms) >= 1
    THEN Row(S_REPAIRED, dur, disp, original_path, ms[1].path, <<>>)
    ELSE Row(S_FAILED, dur, disp, original_path, original_path, NOTE_NO_MATCH)

\* the row of a unit that went through matching, from its all_matches
MatchedRow(ms, dur, disp, original_path) ==
    IF Len(ms) = 1
    THEN Row(S_REPAIRED, dur, disp, original_path, ms[1].path, <<>>)
    ELSE IF Len(ms) > 1
    THEN Row(S_AMBIGUOUS, dur, disp, original_path, original_path,
             Join(NOTE_SEP,
                  [k \in 1..(IF Len(ms) < MAX_NOTE_CANDIDATES THEN Len(ms)
                             ELSE MAX_NOTE_CANDIDATES) |-> ms[k].path]))
    ELSE Row(S_FAILED, dur, disp, original_path, original_path, NOTE_NO_MATCH)

\* variant of NoExtinf: an empty display does not stop matching
NoExtinfDurationOnly(dur, disp) == dur = None \/ dur[1] < 0

\* the unit cannot be matched: dur is None or dur < 0 or not disp
NoExtinf(dur, disp) == dur = None \/ dur[1] < 0 \/ disp = None

\* all_matches after a unit: assigned when matching is run for the unit, left
\* as it was (prev) when the unit is KEPT or FAILED_NO_EXTINF
ParsedMatches(bd, exists, pe, original_path, prev) ==
    IF original_path \in exists \/ NoExtinf(pe[1], pe[2]) THEN prev
    ELSE AllMatches(bd, DUR_TOL_DEFAULT, pe[2], pe[1][1])

UnitMatches(bd, exists, line, original_path, prev) ==
    ParsedMatches(bd, exists, parse_extinf(line), original_path, prev)

\* variant of ParsedRow: the EXTINF test comes before the os.path.exists test
ParsedRowExtinfFirst(exists, pe, original_path, ms) ==
    IF NoExtinf(pe[1], pe[2])
    THEN Row(S_FAILED_NO_EXTINF, pe[1], pe[2], original_path, original_path,
             NOTE_NO_EXTINF)
    ELSE IF original_path \in exists
    THEN Row(S_KEPT, pe[1], pe[2], original_path, original_path, <<>>)
    ELSE MatchedRow(ms, pe[1], pe[2], original_path)

\* the report row of a unit with all_matches = ms
ParsedRow(exists, pe, original_path, ms) ==
    IF original_path \in exists
    THEN Row(S_KEPT, pe[1], pe[2], original_path, original_path, <<>>)
    ELSE IF NoExtinf(pe[1], pe[2])
    THEN Row(S_FAILED_NO_EXTINF, pe[1], pe[2], original_path, original_path,
             NOTE_NO_EXTINF)
    ELSE MatchedRow(ms, pe[1], pe[2], original_path)

\* the report row of the unit  line, original_path  whose all_matches is ms
UnitRow(exists, line, original_path, ms) ==
    ParsedRow(exists, parse_extinf(line), original_path, ms)

\* a report row as csv.writer writes it and csv.DictReader reads it back: the
\* duration becomes its decimal text, None becomes the empty text
CsvOfRow(row) ==
    [status |-> row.status,
     extinf_duration |-> IF row.extinf_duration = None THEN <<>>
                         ELSE StrOfInt(row.extinf_duration[1]),
     extinf_display |-> row.extinf_display,
     original_path |-> row.original_path,
     written_path |-> row.written_path,
     notes |-> row.notes]

\* the rows of the report file under its header
CsvOfRows(rows) == [n \in 1..Len(rows) |-> CsvOfRow(rows[n])]

\* line.startswith("#EXTINF") and i + 1 < len(lines)
IsUnitAt(ls, k) == StartsWith(RStripNL(ls[k + 1]), EXTINF_TAG) /\ k + 1 < Len(ls)

\* variant of CountsAs: a FAILED_NO_EXTINF row increments no counter
CountsMatchedOnly(row, st) ==
    IF row.status = st /\ st # S_FAILED_NO_EXTINF THEN 1 ELSE 0

\* the counter a row's status increments
CountsAs(row, st) == IF row.status = st THEN 1 ELSE 0

\* json.load(index) and the bucket loop
LoadIndex ==
    /\ rpc = "load"
    /\ by_dur' = BuildByDur(music_index)
    /\ rpc' = "loop"
    /\ UNCHANGED <<lines, music_index, fs, i, out_lines, report_rows, all_matches,
                   total, kept, repaired, ambiguous, failed, output_file, report_file>>
    /\ UNCHANGED <<matchVars, appVars, callVars, scanVars>>

\* one iteration of  while i < len(lines)  that handles an EXTINF unit
RepairUnit ==
    /\ rpc = "loop"
    /\ i < Len(lines)
    /\ IsUnitAt(lines, i)
    /\ \E line \in {RStripNL(lines[i + 1])} :
       \E original_path \in {RStripNL(lines[i + 2])} :
       \E ms \in {UnitMatches(by_dur, fs, line, original_path, all_matches)} :
       \E row \in {UnitRow(fs, line, original_path, ms)} :
           /\ all_matches' = ms
           /\ out_lines' = out_lines \o <<line, row.written_path>>
           /\ report_rows' = Append(report_rows, row)
           /\ total' = total + 1
           /\ kept' = kept + CountsAs(row, S_KEPT)
           /\ repaired' = repaired + CountsAs(row, S_REPAIRED)
           /\ ambiguous' = ambiguous + CountsAs(row, S_AMBIGUOUS)
           /\ failed' = failed + CountsAs(row, S_FAILED) + CountsAs(row, S_FAILED_NO_EXTINF)
    /\ i' = i + 2
    /\ UNCHANGED <<lines, music_index, fs, by_dur, output_file, report_file, rpc>>
    /\ UNCHANGED <<matchVars, appVars, callVars, scanVars>>

\* one iteration that passes a line through
RepairLine ==
    /\ rpc = "loop"
    /\ i < Len(lines)
    /\ ~IsUnitAt(lines, i)
    /\ out_lines' = Append(out_lines, RStripNL(lines[i + 1]))
    /\ i' = i + 1
    /\ UNCHANGED <<lines, music_index, fs, by_dur, report_rows, all_matches,
                   total, kept, repaired, ambiguous, failed, output_file, report_file, rpc>>
    /\ UNCHANGED <<matchVars, appVars, callVars, scanVars>>

\* after the loop: the output playlist (its lines, written joined by "\n")
\* and the report (its rows, written under the header) replace the files
WriteOutputs ==
    /\ rpc = "loop"
    /\ i >= Len(lines)
    /\ output_file' = out_lines
    /\ report_file' = report_rows
    /\ rpc' = "done"
    /\ UNCHANGED <<lines, music_index, fs, by_dur, i, out_lines, report_rows, all_matches,
                   total, kept, repaired, ambiguous, failed>>
    /\ UNCHANGED <<matchVars, appVars, callVars, scanVars>>


(***************************************************************************)
(* find_matches, called on its own                                         *)
(***************************************************************************)
BuildBuckets ==
    /\ mpc = "index"
    /\ by_dur' = BuildByDur(music_index)
    /\ mpc' = "call"
    /\ UNCHANGED <<q_title, q_artist, q_dur, q_tol, q_result>>
    /\ UNCHANGED <<lines, music_index, fs, i, out_lines, report_rows, all_matches,
                   total, kept, repaired, ambiguous, failed, output_file, report_file, rpc>>
    /\ UNCHANGED <<appVars, callVars, scanVars>>

CallFindMatches ==
    /\ mpc = "call"
    /\ q_result' = find_matches(by_dur, q_tol, q_title, q_artist, q_dur)
    /\ mpc' = "done"
    /\ UNCHANGED <<q_title, q_artist, q_dur, q_tol>>
    /\ UNCHANGED <<repairVars, appVars, callVars, scanVars>>

(***************************************************************************)
(* Inputs                                                                  *)
(***************************************************************************)
MaxLines == 4

MaxItems == 4

MaxTol == 2

NL == <<"\n">>

PATH_K == <<"/","k",".","x">>

PATH_Z == <<"/","z",".","x">>

PATH_A == <<"/","a",".","x">>

PATH_B == <<"/","b",".","x">>

PATH_C == <<"/","c",".","x">>

PATH_D == <<"/","d",".","x">>

PATH_E == <<"/","e",".","x">>

PATH_F == <<"/","f",".","x">>

Extinf(durText, disp) == EXTINF_TAG \o <<":">> \o durText \o <<",">> \o disp \o NL

D200 == <<"2","0","0">>

\* lines a playlist is made of
LineChoices ==
    { Extinf(D200, <<"A"," ","-"," ","T">>),
      Extinf(D200, <<"T">>),
      Extinf(<<"-","1">>, <<"A"," ","-"," ","T">>),
      Extinf(D200, <<>>),
      EXTINF_TAG \o <<"O">> \o NL,
      <<"#","E","X","T","M","3","U">> \o NL,
      PATH_K \o NL,
      PATH_Z \o NL }

Playlists == UNION {[1..n -> LineChoices] : n \in 0..MaxLines}

Item(title, artist, dur, path) ==
    [title |-> title, artist |-> artist, duration |-> dur, path |-> path]

ITEM_A == Item(<<"T">>, <<"A">>, Some(200), PATH_A)

ITEM_B == Item(<<"t">>, <<"a"," ","(","x",")">>, Some(202), PATH_B)

\* the same title under another artist
ITEM_C == Item(<<"T">>, <<"B">>, Some(199), PATH_C)

\* no artist tag and no artist guessed from the path
ITEM_D == Item(<<"T">>, None, Some(200), PATH_D)

\* outside the tolerance
ITEM_E == Item(<<"T">>, <<"A">>, Some(203), PATH_E)

\* the indexes a playlist is repaired against
IndexChoices ==
    { <<>>,
      <<ITEM_A>>,
      <<ITEM_A, ITEM_B>>,
      <<ITEM_C>>,
      <<ITEM_D, ITEM_E>>,
      <<ITEM_A, ITEM_A>>,
      <<ITEM_A, ITEM_C>>,
      <<ITEM_A, ITEM_B, [ITEM_A EXCEPT !.path = PATH_C],
        [ITEM_A EXCEPT !.path = PATH_D], [ITEM_A EXCEPT !.path = PATH_E],
        [ITEM_A EXCEPT !.path = PATH_F]>> }

T6 == <<"a"," ","b"," ","c"," ","d"," ","e"," ","f">>

T7 == T6 \o <<" ","g">>

\* items find_matches is tried on: durations on both sides of the window
\* ends, titles at similarity 6/7 and 1 to the queries, one item without artist
MatchItemList ==
    << Item(T6, <<"A">>, Some(197), PATH_A),
       Item(T6, <<"A">>, Some(198), PATH_B),
       Item(T6, <<"A">>, Some(202), PATH_C),
       Item(T6, <<"A">>, Some(203), PATH_D),
       Item(T7, <<"A">>, Some(200), PATH_E),
       Item(T7, <<"B">>, Some(201), PATH_F),
       Item(<<"b"," ","a">>, <<"B">>, Some(199), PATH_A),
       Item(T6, None, Some(200), PATH_F) >>

\* the index orders tried: n items in list order, an item possibly repeated
NonDecreasing(n) ==
    {f \in [1..n -> 1..Len(MatchItemList)] : \A k \in 1..(n - 1) : f[k] <= f[k + 1]}

MatchIndexes ==
    UNION {{[k \in 1..n |-> MatchItemList[f[k]]] : f \in NonDecreasing(n)} : n \in 0..MaxItems}

QueryTitles == {None, T6, T7, <<"a"," ","b">>}

QueryArtists == {None, <<"a">>, <<"b">>}

RepairIdle ==
    /\ lines = <<>>
    /\ fs = {}
    /\ i = 0
    /\ out_lines = <<>>
    /\ report_rows = <<>>
    /\ all_matches = <<>>
    /\ total = 0 /\ kept = 0 /\ repaired = 0 /\ ambiguous = 0 /\ failed = 0
    /\ output_file = <<>>
    /\ report_file = <<>>
    /\ rpc = "idle"

MatchIdle ==
    /\ q_title = None /\ q_artist = None /\ q_dur = 0 /\ q_tol = 0
    /\ q_result = <<>>
    /\ mpc = "idle"

\* no function is being called
CallIdle ==
    /\ call_fn = "none"
    /\ call_args = <<>>
    /\ call_ret = <<>>
    /\ call_pc = "idle"

\* no scan has run and no music folder was added
ScanIdle ==
    /\ tree = <<>>
    /\ music_roots = <<>>
    /\ scan_items = <<>>
    /\ scan_stats = <<>>
    /\ index_file = <<>>
    /\ stats_file = <<>>

(***************************************************************************)
(* Inputs of the application: playlists, reports and selections on disk    *)
(***************************************************************************)
PL_ORIG == <<"1","5">>

PL_EXP == <<"f","i","x","e","d","_","1","5","_","s","e","l","e","c","t","e","d">>

PL_OTHER == <<"f","i","x","e","d","_","7","_","s","e","l","e","c","t","e","d">>

KEY_15 == <<"1","5">>

KEY_7 == <<"7">>

\* a row as csv.DictReader gives it for a report written by repair_playlist
CsvRow(status, display, original_path, written_path, notes) ==
    [status |-> status, extinf_duration |-> <<"2","0","0">>, extinf_display |-> display,
     original_path |-> original_path, written_path |-> written_path, notes |-> notes]

ROW_AMBIGUOUS == CsvRow(S_AMBIGUOUS, <<"A"," ","-"," ","T">>, <<"/","z",".","x">>, <<"/","z",".","x">>, <<"/","a",".","x"," ","|"," ","/","b",".","x">>)

ROW_FAILED == CsvRow(S_FAILED, <<"T">>, <<"/","y",".","x">>, <<"/","y",".","x">>, NOTE_NO_MATCH)

ROW_REPAIRED == CsvRow(S_REPAIRED, <<"U">>, <<"/","w",".","x">>, <<"/","c",".","x">>, <<>>)

REPORT_AMBIGUOUS == <<ROW_AMBIGUOUS>>

REPORT_FAILED == <<ROW_FAILED>>

REPORT_7 == <<ROW_REPAIRED>>

\* the report a repair of the playlist writes: the playlist and the index are
\* those of the run that wrote the report on disk, so the rows are the same
RepairReportOf(files, pl) ==
    IF canonical_key(pl) \in DOMAIN files THEN files[canonical_key(pl)] ELSE REPORT_AMBIGUOUS

ROW_0 == <<"0">>

ROW_1 == <<"1">>

SEL_P == <<"/","p",".","x">>

SEL_Q == <<"/","q",".","x">>

\* the files the file dialog of Browse can return
BrowseChoices == {<<"/","b",".","x">>}

\* the file lists the import dialog can return
ImportChoices == {<<PL_ORIG>>, <<PL_EXP>>}

\* the reports folder when the program starts
ReportFileChoices ==
    {MapPut(<<>>, KEY_15, REPORT_AMBIGUOUS), MapPut(<<>>, KEY_15, REPORT_FAILED)}

SelectionFileChoices ==
    {<<>>, MapPut(<<>>, KEY_15, MapPut(<<>>, ROW_0, SEL_P))}

SearchChoices == {<<>>, <<"Z">>}

DiskIdle ==
    /\ report_files = <<>>
    /\ selection_files = <<>>
    /\ m3u_files = <<>>
    /\ index_exists = FALSE

WorkerIdle ==
    /\ worker_func = "none"
    /\ worker_kwargs = <<>>
    /\ worker_cancelled = FALSE
    /\ worker_pc = "idle"
    /\ job_i = 0
    /\ result = "none"

\* MainWindow.__init__
UiInit ==
    /\ playlists = <<>>
    /\ view_mode = "UNRESOLVED"
    /\ search = <<>>
    /\ selections_by_key = <<>>
    /\ report_rows_by_key = <<>>
    /\ session_repaired_keys = {}
    /\ saved_keys = {}
    /\ pending_save_keys = <<>>
    /\ last_action = "None"
    /\ busy = FALSE
    /\ ambiguous_rows_all = <<>> /\ failed_rows_all = <<>>
    /\ ambiguous_rows = <<>> /\ failed_rows = <<>>
    /\ active_target = "None" /\ active_pl_key = None /\ active_row_id = None
    /\ lst_candidates = <<>>
    /\ current_candidate = 0

AppIdle == DiskIdle /\ WorkerIdle /\ UiInit

(***************************************************************************)
(* The Worker running a runner function (main_window.py 21-45)             *)
(***************************************************************************)
\* Worker.cancel, while an iteration is still to come (the flag is read at
\* the head of the loop only)
Cancel ==
    /\ worker_pc = "running"
    /\ job_i < Len(worker_kwargs)
    /\ ~worker_cancelled
    /\ worker_cancelled' = TRUE
    /\ UNCHANGED <<worker_func, worker_kwargs, worker_pc, job_i, result>>
    /\ UNCHANGED <<repairVars, matchVars, diskVars, uiVars, callVars, scanVars>>

\* one iteration of the job loop of export_fixed_multi
ExportJob ==
    /\ worker_pc = "running" /\ worker_func = "export"
    /\ job_i < Len(worker_kwargs)
    /\ ~worker_cancelled
    /\ \E job \in {worker_kwargs[job_i + 1]} :
       \E rows \in {read_report_rows(MapGet(report_files, job.report_csv))} :
           m3u_files' = MapPut(m3u_files, job.out_m3u, ExportedFile(rows, job.selections))
    /\ job_i' = job_i + 1
    /\ UNCHANGED <<worker_func, worker_kwargs, worker_cancelled, worker_pc, result>>
    /\ UNCHANGED <<report_files, selection_files, index_exists>>
    /\ UNCHANGED <<repairVars, matchVars, uiVars, callVars, scanVars>>

\* one iteration of the playlist loop of repair_playlists: repair_playlist
\* rewrites the report of the playlist
RepairJob ==
    /\ worker_pc = "running" /\ worker_func = "repair"
    /\ job_i < Len(worker_kwargs)
    /\ ~worker_cancelled
    /\ \E pl \in {worker_kwargs[job_i + 1]} :
           report_files' = MapPut(report_files, canonical_key(pl),
                                  RepairReportOf(report_files, pl))
    /\ job_i' = job_i + 1
    /\ UNCHANGED <<worker_func, worker_kwargs, worker_cancelled, worker_pc, result>>
    /\ UNCHANGED <<selection_files, m3u_files, index_exists>>
    /\ UNCHANGED <<repairVars, matchVars, uiVars, callVars, scanVars>>

\* the loop head finds cancel_flag() true: TaskResult(False, ..., {})
WorkerCancelled ==
    /\ worker_pc = "running"
    /\ job_i < Len(worker_kwargs)
    /\ worker_cancelled
    /\ result' = "none"
    /\ worker_pc' = "finished"
    /\ UNCHANGED <<worker_func, worker_kwargs, worker_cancelled, job_i>>
    /\ UNCHANGED <<repairVars, matchVars, diskVars, uiVars, callVars, scanVars>>

\* an iteration of repair_playlists or export_fixed_multi raises (a file
\* cannot be read or written): Worker.run emits failed.  scan_folder lets no
\* error of a file or a folder out
WorkerRaise ==
    /\ worker_pc = "running"
    /\ worker_func \in {"repair", "export"}
    /\ job_i < Len(worker_kwargs)
    /\ ~worker_cancelled
    /\ worker_pc' = "failed"
    /\ UNCHANGED <<worker_func, worker_kwargs, worker_cancelled, job_i, result>>
    /\ UNCHANGED <<repairVars, matchVars, diskVars, uiVars, callVars, scanVars>>

\* the loop is over: TaskResult(True, ...), Worker.run emits finished
WorkerReturn ==
    /\ worker_pc = "running"
    /\ worker_func \in {"repair", "export"}
    /\ job_i = Len(worker_kwargs)
    /\ result' = IF worker_func = "export" THEN "done" ELSE "repair"
    /\ worker_pc' = "finished"
    /\ UNCHANGED <<worker_func, worker_kwargs, worker_cancelled, job_i>>
    /\ UNCHANGED <<repairVars, matchVars, diskVars, uiVars, callVars, scanVars>>

(***************************************************************************)
(* MainWindow: handlers                                                    *)
(***************************************************************************)
\* the target and the candidate list are cleared
ClearActive ==
    /\ active_target' = "None" /\ active_pl_key' = None /\ active_row_id' = None
    /\ lst_candidates' = <<>>
    /\ current_candidate' = 0

\* _apply_search_filter with the query text q over the master rows
ApplySearchFilter(amb_all, fail_all, q) ==
    /\ ambiguous_rows' = Filtered(amb_all, UiNorm(q))
    /\ failed_rows' = Filtered(fail_all, UiNorm(q))
    /\ ClearActive

\* the tail of _refresh_tables_from_mode, view = <<amb, fail, selections>>
ShowView(view) ==
    /\ ambiguous_rows_all' = view[1]
    /\ failed_rows_all' = view[2]
    /\ selections_by_key' = view[3]
    /\ ApplySearchFilter(view[1], view[2], search)

\* _refresh_tables_from_mode on the given session state
refresh_tables_from_mode(mode, pls, rrbk, files, repaired_keys, saved, sel) ==
    \E view \in {BuildView(mode, pls, rrbk, files, repaired_keys, saved, sel)} :
        ShowView(view)

on_view_mode_changed ==
    /\ \E mode \in {"UNRESOLVED", "RESOLVED"} \ {view_mode} :
           /\ view_mode' = mode
           /\ refresh_tables_from_mode(mode, playlists, report_rows_by_key, selection_files,
                                       session_repaired_keys, saved_keys, selections_by_key)
    /\ UNCHANGED <<sessionVars, search>>
    /\ UNCHANGED <<repairVars, matchVars, diskVars, workerVars, callVars, scanVars>>

on_search_changed ==
    /\ \E q \in SearchChoices \ {search} :
           /\ search' = q
           /\ ApplySearchFilter(ambiguous_rows_all, failed_rows_all, q)
    /\ UNCHANGED <<sessionVars, view_mode, selections_by_key, ambiguous_rows_all, failed_rows_all>>
    /\ UNCHANGED <<repairVars, matchVars, diskVars, workerVars, callVars, scanVars>>

\* on_import_playlists when the file dialog returns one of the given lists
ImportPlaylists(choices) ==
    /\ \E files \in choices :
       \E rrbk \in {ReloadReports(files, report_files, <<>>)} :
           /\ playlists' = files
           /\ session_repaired_keys' = {}
           /\ saved_keys' = {}
           /\ report_rows_by_key' = rrbk
           /\ refresh_tables_from_mode(view_mode, files, rrbk, selection_files, {}, {}, <<>>)
    /\ UNCHANGED <<pending_save_keys, last_action, busy, view_mode, search>>
    /\ UNCHANGED <<repairVars, matchVars, diskVars, workerVars, callVars, scanVars>>

\* the import button is disabled while busy (_set_busy)
on_import_playlists ==
    /\ ~busy
    /\ ImportPlaylists(ImportChoices)

\* variant of RunTask: the task is started and the window is not set busy
RunTaskNotBusy(func, kwargs) ==
    /\ busy' = busy
    /\ worker_func' = func
    /\ worker_kwargs' = kwargs
    /\ worker_cancelled' = FALSE
    /\ worker_pc' = "running"
    /\ job_i' = 0
    /\ result' = "none"

\* _run_task: the Worker is created and started
RunTask(func, kwargs) ==
    /\ busy' = TRUE
    /\ worker_func' = func
    /\ worker_kwargs' = kwargs
    /\ worker_cancelled' = FALSE
    /\ worker_pc' = "running"
    /\ job_i' = 0
    /\ result' = "none"

\* has_any_report of on_repair_safe
HasAnyReport ==
    \E k \in 1..Len(playlists) :
        /\ is_exported_playlist(playlists[k])
        /\ canonical_key(playlists[k]) \in DOMAIN report_files

\* on_repair_safe, the answer "Resume" to the question about the old report
RepairResume ==
    /\ ~busy /\ playlists # <<>> /\ index_exists
    /\ HasAnyReport
    /\ \E rrbk \in {ReloadReports(playlists, report_files, <<>>)} :
           /\ report_rows_by_key' = rrbk
           /\ refresh_tables_from_mode(view_mode, playlists, rrbk, selection_files,
                                       session_repaired_keys, saved_keys, selections_by_key)
    /\ UNCHANGED <<playlists, session_repaired_keys, saved_keys, pending_save_keys,
                   last_action, busy, view_mode, search>>
    /\ UNCHANGED <<repairVars, matchVars, diskVars, workerVars, callVars, scanVars>>

\* on_repair_safe when the repair is started (no old report, or "Re-run")
RepairStart ==
    /\ ~busy /\ playlists # <<>> /\ index_exists
    /\ ambiguous_rows' = <<>> /\ failed_rows' = <<>>
    /\ ClearActive
    /\ session_repaired_keys' = {canonical_key(playlists[k]) : k \in 1..Len(playlists)}
    /\ RunTask("repair", playlists)
    /\ UNCHANGED <<playlists, report_rows_by_key, saved_keys, pending_save_keys, last_action,
                   view_mode, search, selections_by_key, ambiguous_rows_all, failed_rows_all>>
    /\ UNCHANGED <<repairVars, matchVars, diskVars, callVars, scanVars>>

PLACEHOLDER_FAILED == <<"(","N","o"," ","c","a","n","d","i","d","a","t","e","s","."," ","U","s","e"," ","B","r","o","w","s","e">> \o <<"ELLIPSIS", ")">>

PLACEHOLDER_NO_NOTES == <<"(","N","o"," ","c","a","n","d","i","d","a","t","e","s"," ","p","a","r","s","e","d"," ","f","r","o","m"," ","N","o","t","e","s","."," ","U","s","e"," ","B","r","o","w","s","e">> \o <<"ELLIPSIS", ")">>

\* self._amb_by_id.get(key): the last shown row with that key and row id
RowById(rows, pl_key, row_id) ==
    LET hits == {k \in 1..Len(rows) : rows[k].pl_key = pl_key /\ rows[k].row_index = row_id}
    IN  IF pl_key = <<>> \/ row_id = <<>> \/ hits = {} THEN <<>>
        ELSE <<rows[CHOOSE a \in hits : \A k \in hits : a >= k]>>

\* _refresh_candidates_panel for the row found (found = <<>> or <<row>>)
CandidatesPanel(target, found) ==
    /\ lst_candidates' =
           IF found = <<>> THEN <<>>
           ELSE IF target = "FAILED" THEN <<PLACEHOLDER_FAILED>>
           ELSE IF found[1].candidates = <<>> THEN <<PLACEHOLDER_NO_NOTES>>
           ELSE found[1].candidates
    /\ current_candidate' =
           IF found # <<>> /\ target = "AMBIGUOUS" /\ found[1].candidates # <<>> THEN 1 ELSE 0

\* on_ambiguous_selected / on_failed_selected: a row of a table is clicked
SelectRow(target, rows) ==
    \E k \in 1..Len(rows) :
        /\ active_target' = target
        /\ active_pl_key' = rows[k].pl_key
        /\ active_row_id' = Strip(rows[k].row_index)
        /\ CandidatesPanel(target, RowById(rows, rows[k].pl_key, Strip(rows[k].row_index)))

on_ambiguous_selected ==
    /\ SelectRow("AMBIGUOUS", ambiguous_rows)
    /\ UNCHANGED <<sessionVars, view_mode, search, selections_by_key, tableVars>>
    /\ UNCHANGED <<repairVars, matchVars, diskVars, workerVars, callVars, scanVars>>

on_failed_selected ==
    /\ SelectRow("FAILED", failed_rows)
    /\ UNCHANGED <<sessionVars, view_mode, search, selections_by_key, tableVars>>
    /\ UNCHANGED <<repairVars, matchVars, diskVars, workerVars, callVars, scanVars>>

\* an item of the candidate list is clicked
PickCandidate ==
    /\ \E k \in 1..Len(lst_candidates) :
           /\ k # current_candidate
           /\ current_candidate' = k
    /\ UNCHANGED <<active_target, active_pl_key, active_row_id, lst_candidates>>
    /\ UNCHANGED <<sessionVars, view_mode, search, selections_by_key, tableVars>>
    /\ UNCHANGED <<repairVars, matchVars, diskVars, workerVars, callVars, scanVars>>

HasTarget == active_target # "None" /\ active_row_id # None /\ active_pl_key # None

\* the Browse button is disabled while busy
on_browse_choice ==
    /\ ~busy
    /\ HasTarget
    /\ \E file \in BrowseChoices :
           /\ lst_candidates' = <<file>>
           /\ current_candidate' = 1
    /\ UNCHANGED <<active_target, active_pl_key, active_row_id>>
    /\ UNCHANGED <<sessionVars, view_mode, search, selections_by_key, tableVars>>
    /\ UNCHANGED <<repairVars, matchVars, diskVars, workerVars, callVars, scanVars>>

\* _current_candidate
CurrentCandidate ==
    IF current_candidate = 0 THEN <<>>
    ELSE IF StartsWith(Strip(lst_candidates[current_candidate]), <<"(">>) THEN <<>>
    ELSE Strip(lst_candidates[current_candidate])

\* the Apply button is disabled while busy
on_apply_choice ==
    /\ ~busy
    /\ HasTarget
    /\ CurrentCandidate # <<>>
    /\ selections_by_key' =
           MapPut(selections_by_key, active_pl_key,
                  MapPut(MapGet(selections_by_key, active_pl_key), active_row_id, CurrentCandidate))
    /\ UNCHANGED <<sessionVars, view_mode, search, tableVars, activeVars>>
    /\ UNCHANGED <<repairVars, matchVars, diskVars, workerVars, callVars, scanVars>>

\* the job on_save_fixed builds for a playlist
JobOf(pl, sel) ==
    [report_csv |-> canonical_key(pl), out_m3u |-> export_stem_for(pl),
     selections |-> MapGet(sel, canonical_key(pl))]

\* the playlists whose report file exists
WithReport(pls, files) ==
    LET Is(pl) == canonical_key(pl) \in DOMAIN files IN SelectSeq(pls, Is)

JobsOf(pls, sel) == [k \in 1..Len(pls) |-> JobOf(pls[k], sel)]

KeysOf(pls) == [k \in 1..Len(pls) |-> canonical_key(pls[k])]

on_save_fixed ==
    /\ ~busy
    /\ playlists # <<>>
    /\ \E pls \in {WithReport(playlists, report_files)} :
           /\ pls # <<>>
           /\ pending_save_keys' = KeysOf(pls)
           /\ RunTask("export", JobsOf(pls, selections_by_key))
    /\ last_action' = "SAVE"
    /\ UNCHANGED <<playlists, report_rows_by_key, session_repaired_keys, saved_keys,
                   view_mode, search, selections_by_key, tableVars, activeVars>>
    /\ UNCHANGED <<repairVars, matchVars, diskVars, callVars, scanVars>>

\* _set_busy(False); the Worker has emitted its signal and is not used again
TaskOver ==
    /\ busy' = FALSE
    /\ worker_pc' = "idle"
    /\ worker_func' = "none"
    /\ worker_kwargs' = <<>>
    /\ worker_cancelled' = FALSE
    /\ job_i' = 0
    /\ result' = "none"

\* _on_finished for the result of repair_playlists
OnFinishedRepair ==
    /\ worker_pc = "finished" /\ result = "repair"
    /\ TaskOver
    /\ \E rrbk \in {ReloadReports(playlists, report_files, <<>>)} :
           /\ report_rows_by_key' = rrbk
           /\ refresh_tables_from_mode(view_mode, playlists, rrbk, selection_files,
                                       session_repaired_keys, saved_keys, selections_by_key)
    /\ UNCHANGED <<playlists, session_repaired_keys, saved_keys, pending_save_keys,
                   last_action, view_mode, search>>
    /\ UNCHANGED <<repairVars, matchVars, diskVars, callVars, scanVars>>

\* variant of SaveSelections: an entry already in the file is kept, the session
\* adds only rows the file does not have
RECURSIVE SaveSelectionsKeepOld(_, _, _)
SaveSelectionsKeepOld(files, keys, sel) ==
    IF keys = <<>> THEN files
    ELSE SaveSelectionsKeepOld(
             MapPut(files, Head(keys),
                    MergedSel(MapGet(sel, Head(keys)), MapGet(files, Head(keys)))),
             Tail(keys), sel)

\* for pl_key in self._pending_save_keys: _save_selections_for_key(pl_key, sel)
RECURSIVE SaveSelections(_, _, _)
SaveSelections(files, keys, sel) ==
    IF keys = <<>> THEN files
    ELSE SaveSelections(MapPut(files, Head(keys), MapGet(sel, Head(keys))), Tail(keys), sel)

\* _on_finished for the result of export_fixed_multi
OnFinishedSave ==
    /\ worker_pc = "finished" /\ result = "done"
    /\ TaskOver
    /\ \E files \in {IF last_action = "SAVE"
                     THEN SaveSelections(selection_files, pending_save_keys, selections_by_key)
                     ELSE selection_files} :
       \E saved \in {IF last_action = "SAVE"
                     THEN saved_keys \cup Range(pending_save_keys) ELSE saved_keys} :
       \E rrbk \in {ReloadReports(playlists, report_files, <<>>)} :
           /\ selection_files' = files
           /\ saved_keys' = saved
           /\ report_rows_by_key' = rrbk
           /\ refresh_tables_from_mode(view_mode, playlists, rrbk, files,
                                       session_repaired_keys, saved, selections_by_key)
    /\ pending_save_keys' = IF last_action = "SAVE" THEN <<>> ELSE pending_save_keys
    /\ last_action' = IF last_action = "SAVE" THEN "None" ELSE last_action
    /\ UNCHANGED <<playlists, session_repaired_keys, view_mode, search>>
    /\ UNCHANGED <<report_files, m3u_files, index_exists>>
    /\ UNCHANGED <<repairVars, matchVars, callVars, scanVars>>

\* _on_finished for a result with neither rows nor "done" in its outputs: a
\* cancelled task, a scan
OnFinishedOther ==
    /\ worker_pc = "finished" /\ result \in {"none", "scan"}
    /\ TaskOver
    /\ UNCHANGED <<playlists, report_rows_by_key, session_repaired_keys, saved_keys,
                   pending_save_keys, last_action>>
    /\ UNCHANGED <<view_mode, search, selections_by_key, tableVars, activeVars>>
    /\ UNCHANGED <<repairVars, matchVars, diskVars, callVars, scanVars>>

\* variant of OnFailed: the selections are written although the task failed
OnFailedSaving ==
    /\ worker_pc = "failed"
    /\ TaskOver
    /\ selection_files' = SaveSelections(selection_files, pending_save_keys, selections_by_key)
    /\ UNCHANGED <<playlists, report_rows_by_key, session_repaired_keys, saved_keys,
                   pending_save_keys, last_action>>
    /\ UNCHANGED <<view_mode, search, selections_by_key, tableVars, activeVars>>
    /\ UNCHANGED <<report_files, m3u_files, index_exists>>
    /\ UNCHANGED <<repairVars, matchVars, callVars, scanVars>>

\* _on_failed
OnFailed ==
    /\ worker_pc = "failed"
    /\ TaskOver
    /\ UNCHANGED <<playlists, report_rows_by_key, session_repaired_keys, saved_keys,
                   pending_save_keys, last_action>>
    /\ UNCHANGED <<view_mode, search, selections_by_key, tableVars, activeVars>>
    /\ UNCHANGED <<repairVars, matchVars, diskVars, callVars, scanVars>>

(***************************************************************************)
(* Inputs of export_fixed_multi called on its own                          *)
(***************************************************************************)
MaxRows == 3

ORIG == <<"/","o",".","x">>

EXP_REPAIRED == CsvRow(S_REPAIRED, <<"U">>, ORIG, <<"/","w",".","x">>, <<>>)

\* an unresolved row that has a written path, notes and a candidates column
EXP_AMBIGUOUS ==
    [status |-> S_AMBIGUOUS, original_path |-> ORIG, written_path |-> <<"/","w",".","x">>,
     notes |-> <<"/","a",".","x"," ","|"," ","/","b",".","x">>, candidates |-> <<"/","a",".","x">>]

\* resolved by keyword, blank written_path, final_path filled
EXP_KEPT == [status |-> <<" ","k","e","p","t"," ">>, original_path |-> ORIG, written_path |-> <<" ">>, final_path |-> <<"/","f",".","x">>]

\* resolved by keyword, no final path at all
EXP_DONE == [status |-> <<"d","o","n","e","_","o","k">>, original_path |-> ORIG, written_path |-> <<>>, notes |-> <<"/","a",".","x">>]

EXP_PENDING == [status |-> <<"P","E","N","D","I","N","G">>, original_path |-> ORIG, written_path |-> <<"/","w",".","x">>]

\* a row with its own row_index and an extinf column
EXP_FAILED ==
    [status |-> S_FAILED, original_path |-> ORIG, written_path |-> ORIG,
     row_index |-> <<" ","1"," ">>, extinf |-> <<"#","E","X","T","I","N","F",":","1",",","t">>, notes |-> NOTE_NO_MATCH]

\* the original path in the column "original", the final one in "matched"
EXP_MATCHED == [status |-> <<"N","O","T","_","O","K">>, original |-> <<" ","/","p",".","x">>, matched |-> <<"/","m",".","x">>]

EXP_ORIGINAL == [status |-> S_REPAIRED, original |-> <<"/","p",".","x">>, written_path |-> <<>>]

ExportRows ==
    {EXP_REPAIRED, EXP_AMBIGUOUS, EXP_KEPT, EXP_DONE, EXP_PENDING, EXP_FAILED,
     EXP_MATCHED, EXP_ORIGINAL}

ExportReports == UNION {[1..n -> ExportRows] : n \in 0..MaxRows}

SEL_S == <<"/","s",".","x">>

ExportSelections ==
    {<<>>, MapPut(<<>>, ROW_0, SEL_S), MapPut(MapPut(<<>>, ROW_0, SEL_S), ROW_1, SEL_Q),
     MapPut(<<>>, ROW_1, <<>>)}

ExportJobs ==
    UNION {{<<JobOf(PL_EXP, MapPut(<<>>, KEY_15, sel))>>,
            <<JobOf(PL_EXP, MapPut(<<>>, KEY_15, sel)), JobOf(PL_OTHER, <<>>)>>} :
           sel \in ExportSelections}

(***************************************************************************)
(* Inputs of the scan: the music folders and their files                   *)
(***************************************************************************)
MaxRoots == 2

MaxFiles == 3

\* what File gives for a file: it raises, returns None, or returns an object
Raises == [kind |-> "raise"]

NoFile == [kind |-> "none"]

Audio(length, tags) == [kind |-> "audio", length |-> length, tags |-> tags]

\* a tag mapping with one tag
Tag(k, v) == [x \in {k} |-> <<v>>]

MusicFile(path, easy, raw) == [path |-> path, easy |-> easy, raw |-> raw]

\* title and artist in the easy tags
FILE_TAGGED ==
    MusicFile(<<"/","m","/","a",".","m","p","3">>, Audio(Some(2000), [title |-> <<<<"T">>>>, artist |-> <<<<"A">>>>]), NoFile)

\* File raises on both passes
FILE_BROKEN == MusicFile(<<"/","m","/","d",".","m","p","3">>, Raises, Raises)

\* not an audio file name
FILE_NOTES == MusicFile(<<"/","m","/","n","o","t","e","s",".","t","x","t">>, NoFile, NoFile)

\* a length and an album tag, neither title nor artist
FILE_ALBUM_ONLY ==
    MusicFile(<<"/","m","/","s","/","0","2"," ","-"," ","b",".","F","L","A","C">>, Audio(Some(1804), Tag("album", <<"L">>)),
              Audio(Some(1804), Tag("ALBUM", <<"L">>)))

\* a length and no tag at all
FILE_UNTAGGED == MusicFile(<<"/","m","/","s","/","c",".","w","a","v">>, Audio(Some(2000), <<>>), Audio(Some(2000), <<>>))

\* tags and no length
FILE_NO_LENGTH ==
    MusicFile(<<"/","n","/","A","r","t","i","s","t"," ","N","a","m","e","/","e",".","o","g","g">>, Audio(None, Tag("title", <<"E">>)),
              Audio(Some(0), Tag("TITLE", <<"E">>)))

\* no easy tags, a title among the raw ones, 199.5 seconds long
FILE_RAW_ONLY ==
    MusicFile(<<"/","n","/","A","r","t","i","s","t"," ","N","a","m","e","/","f",".","a","i","f","f">>, Audio(Some(1995), <<>>), Audio(Some(1995), Tag("TIT2", <<"F">>)))

\* a title and no artist in the easy tags, an artist among the raw ones
FILE_RAW_ARTIST ==
    MusicFile(<<"/","n","/","A","r","t","i","s","t"," ","N","a","m","e","/","g",".","m","p","3">>, Audio(Some(2000), Tag("title", <<"G">>)),
              Audio(Some(2000), [TIT2 |-> <<<<"G">>>>, TPE1 |-> <<<<"R">>>>]))

\* the files in the order os.walk visits them
TREE_FILES ==
    <<FILE_TAGGED, FILE_BROKEN, FILE_NOTES, FILE_ALBUM_ONLY, FILE_UNTAGGED,
      FILE_NO_LENGTH, FILE_RAW_ONLY, FILE_RAW_ARTIST>>

\* the files of TREE_FILES at the positions ks, in their order
RECURSIVE FilesAt(_, _)
FilesAt(ks, k) ==
    IF k > Len(TREE_FILES) THEN <<>>
    ELSE (IF k \in ks THEN <<TREE_FILES[k]>> ELSE <<>>) \o FilesAt(ks, k + 1)

\* the trees of at most MaxFiles files
MusicTrees ==
    {FilesAt(ks, 1) : ks \in {s \in SUBSET (1..Len(TREE_FILES)) : Cardinality(s) <= MaxFiles}}

\* the folders the folder dialog can return: /m/s lies in /m
FolderChoices == {<<"/","m">>, <<"/","m","/","s">>, <<"/","n">>}

(***************************************************************************)
(* MainWindow: the music folders and Scan / Update Index                   *)
(***************************************************************************)
\* x in xs, for a list
InList(x, xs) == \E k \in 1..Len(xs) : xs[k] = x

\* on_add_music: a folder that is in the list already is not added again
on_add_music ==
    /\ ~busy
    /\ Len(music_roots) < MaxRoots
    /\ \E p \in FolderChoices :
           /\ ~InList(p, music_roots)
           /\ music_roots' = Append(music_roots, p)
    /\ UNCHANGED <<tree, scan_items, scan_stats, index_file, stats_file>>
    /\ UNCHANGED <<repairVars, matchVars, appVars, callVars>>

on_clear_music_roots ==
    /\ ~busy
    /\ music_roots # <<>>
    /\ music_roots' = <<>>
    /\ UNCHANGED <<tree, scan_items, scan_stats, index_file, stats_file>>
    /\ UNCHANGED <<repairVars, matchVars, appVars, callVars>>

\* stats of scan_index before its loop
STATS_START == [roots |-> <<>>, scanned_supported |-> 0, skipped_no_duration |-> 0, indexed |-> 0]

\* on_scan_index: scan_index is started on the music folders
on_scan_index ==
    /\ ~busy
    /\ music_roots # <<>>
    /\ RunTask("scan", music_roots)
    /\ scan_items' = <<>>
    /\ scan_stats' = STATS_START
    /\ UNCHANGED <<tree, music_roots, index_file, stats_file>>
    /\ UNCHANGED <<playlists, report_rows_by_key, session_repaired_keys, saved_keys,
                   pending_save_keys, last_action>>
    /\ UNCHANGED <<view_mode, search, selections_by_key, tableVars, activeVars>>
    /\ UNCHANGED <<repairVars, matchVars, diskVars, callVars>>

\* stats after the result of scan_folder was added
StatsPlus(stats, res) ==
    [roots |-> Append(stats.roots, res.root),
     scanned_supported |-> stats.scanned_supported + res.scanned_supported,
     skipped_no_duration |-> stats.skipped_no_duration + res.skipped_no_duration,
     indexed |-> stats.indexed]

\* one iteration of the root loop of scan_index
ScanJob ==
    /\ worker_pc = "running" /\ worker_func = "scan"
    /\ job_i < Len(worker_kwargs)
    /\ ~worker_cancelled
    /\ \E res \in {scan_folder(worker_kwargs[job_i + 1], tree)} :
           /\ scan_items' = scan_items \o res.items
           /\ scan_stats' = StatsPlus(scan_stats, res)
    /\ job_i' = job_i + 1
    /\ UNCHANGED <<worker_func, worker_kwargs, worker_cancelled, worker_pc, result>>
    /\ UNCHANGED <<tree, music_roots, index_file, stats_file>>
    /\ UNCHANGED <<repairVars, matchVars, diskVars, uiVars, callVars>>

\* the root loop is over: the index and the stats are written,
\* TaskResult(True, ...), Worker.run emits finished
ScanReturn ==
    /\ worker_pc = "running" /\ worker_func = "scan"
    /\ job_i = Len(worker_kwargs)
    /\ index_file' = scan_items
    /\ stats_file' = [scan_stats EXCEPT !.indexed = Len(scan_items)]
    /\ scan_stats' = [scan_stats EXCEPT !.indexed = Len(scan_items)]
    /\ index_exists' = TRUE
    /\ result' = "scan"
    /\ worker_pc' = "finished"
    /\ UNCHANGED <<worker_func, worker_kwargs, worker_cancelled, job_i>>
    /\ UNCHANGED <<tree, music_roots, scan_items>>
    /\ UNCHANGED <<report_files, selection_files, m3u_files>>
    /\ UNCHANGED <<repairVars, matchVars, uiVars, callVars>>

(***************************************************************************)
(* Specifications                                                          *)
(***************************************************************************)
\* nothing of the matching engine is running
EngineIdle ==
    RepairIdle /\ MatchIdle /\ CallIdle /\ ScanIdle /\ music_index = <<>> /\ by_dur = <<>>

\* repair_playlist on one playlist and one index
InitRepair ==
    /\ lines \in Playlists
    /\ music_index \in IndexChoices
    /\ fs = {PATH_K}
    /\ by_dur = <<>>
    /\ i = 0
    /\ out_lines = <<>>
    /\ report_rows = <<>>
    /\ all_matches = <<>>
    /\ total = 0 /\ kept = 0 /\ repaired = 0 /\ ambiguous = 0 /\ failed = 0
    /\ output_file = <<>>
    /\ report_file = <<>>
    /\ rpc = "load"
    /\ MatchIdle
    /\ AppIdle
    /\ CallIdle
    /\ ScanIdle

NextRepair ==
    \/ LoadIndex
    \/ RepairUnit
    \/ RepairLine
    \/ WriteOutputs

SpecRepair == InitRepair /\ [][NextRepair]_vars

\* the lines of the playlists whose repair is followed to its end
LiveLineChoices ==
    { Extinf(D200, <<"A"," ","-"," ","T">>),
      Extinf(<<"-","1">>, <<"A"," ","-"," ","T">>),
      M3U_HEADER \o NL,
      PATH_K \o NL,
      PATH_Z \o NL }

LivePlaylists == UNION {[1..n -> LiveLineChoices] : n \in 0..MaxLines}

InitRepairLive ==
    /\ lines \in LivePlaylists
    /\ music_index \in {<<>>, <<ITEM_A>>}
    /\ fs = {PATH_K}
    /\ by_dur = <<>>
    /\ i = 0
    /\ out_lines = <<>>
    /\ report_rows = <<>>
    /\ all_matches = <<>>
    /\ total = 0 /\ kept = 0 /\ repaired = 0 /\ ambiguous = 0 /\ failed = 0
    /\ output_file = <<>>
    /\ report_file = <<>>
    /\ rpc = "load"
    /\ MatchIdle
    /\ AppIdle
    /\ CallIdle
    /\ ScanIdle

\* a step of repair_playlist seen from its position alone: inside the
\* function, the line index or the position changes.  Every step of
\* NextRepair is such a step and one is possible exactly when this is enabled.
RepairAdvances ==
    /\ rpc \in {"load", "loop"}
    /\ \E pc \in {"loop", "done"} :
       \E k \in 0..(Len(lines) + 1) :
           /\ rpc' = pc
           /\ i' = k
           /\ <<pc, k>> # <<rpc, i>>

\* repair_playlist, whose next step is eventually taken: the function runs
\* in one thread and nothing makes it wait
SpecRepairLive ==
    InitRepairLive /\ [][NextRepair]_vars /\ WF_<<rpc, i>>(RepairAdvances)

\* export_fixed_multi on one job whose report is the one repair_playlist
\* has just written
ExportRepaired ==
    /\ rpc = "done"
    /\ m3u_files = <<>>
    /\ \E selections \in {<<>>, MapPut(<<>>, ROW_0, SEL_S)} :
       \E rows \in {read_report_rows(CsvOfRows(report_file))} :
           m3u_files' = MapPut(m3u_files, PL_EXP, ExportedFile(rows, selections))
    /\ UNCHANGED <<report_files, selection_files, index_exists>>
    /\ UNCHANGED <<repairVars, matchVars, workerVars, uiVars, callVars, scanVars>>

NextRepairExport ==
    \/ LoadIndex
    \/ RepairUnit
    \/ RepairLine
    \/ WriteOutputs
    \/ ExportRepaired

\* a playlist is repaired, then the final playlist is exported from its report
SpecRepairExport == InitRepairLive /\ [][NextRepairExport]_vars

\* find_matches on one index and one query
InitMatch ==
    /\ music_index \in MatchIndexes
    /\ by_dur = <<>>
    /\ q_title \in QueryTitles
    /\ q_artist \in QueryArtists
    /\ q_dur = 200
    /\ q_tol \in 0..MaxTol
    /\ q_result = <<>>
    /\ mpc = "index"
    /\ RepairIdle
    /\ AppIdle
    /\ CallIdle
    /\ ScanIdle

NextMatch == BuildBuckets \/ CallFindMatches

SpecMatch == InitMatch /\ [][NextMatch]_vars

\* export_fixed_multi run by a Worker on given jobs
InitExport ==
    /\ EngineIdle
    /\ \E rows \in ExportReports :
           report_files = MapPut(MapPut(<<>>, KEY_15, rows), KEY_7, REPORT_7)
    /\ selection_files = <<>>
    /\ m3u_files = <<>>
    /\ index_exists = FALSE
    /\ worker_func = "export"
    /\ worker_kwargs \in ExportJobs
    /\ worker_cancelled = FALSE
    /\ worker_pc = "running"
    /\ job_i = 0
    /\ result = "none"
    /\ UiInit

NextExport == ExportJob \/ WorkerCancelled \/ WorkerRaise \/ WorkerReturn \/ Cancel

SpecExport == InitExport /\ [][NextExport]_vars

\* the application, from its start on a reports folder of earlier sessions
InitApp ==
    /\ EngineIdle
    /\ report_files \in ReportFileChoices
    /\ selection_files \in SelectionFileChoices
    /\ m3u_files = <<>>
    /\ index_exists = TRUE
    /\ WorkerIdle
    /\ UiInit

NextApp ==
    \/ on_import_playlists
    \/ on_view_mode_changed
    \/ on_search_changed
    \/ RepairResume
    \/ RepairStart
    \/ on_ambiguous_selected
    \/ on_failed_selected
    \/ PickCandidate
    \/ on_browse_choice
    \/ on_apply_choice
    \/ on_save_fixed
    \/ RepairJob
    \/ ExportJob
    \/ Cancel
    \/ WorkerCancelled
    \/ WorkerRaise
    \/ WorkerReturn
    \/ OnFinishedRepair
    \/ OnFinishedSave
    \/ OnFinishedOther
    \/ OnFailed

SpecApp == InitApp /\ [][NextApp]_vars

\* status texts no repair writes but a report can hold
STATUS_MULTI_MATCH_3 == <<"M","U","L","T","I","_","M","A","T","C","H","_","3">>

STATUS_NOT_FOUND_IN_LIB == <<"N","O","T","_","F","O","U","N","D","_","I","N","_","L","I","B">>

STATUS_DONE_OK == <<"d","o","n","e","_","o","k">>

STATUS_PENDING == <<"P","E","N","D","I","N","G">>

\* the two views over reports of any status text, one playlist or an
\* exported playlist together with its original
ROW_PENDING == CsvRow(STATUS_PENDING, <<"P">>, <<"/","v",".","x">>, <<"/","v",".","x">>, <<>>)

ROW_DONE_OK == CsvRow(STATUS_DONE_OK, <<"D">>, <<"/","u",".","x">>, <<"/","d",".","x">>, <<>>)

ViewReportChoices ==
    {MapPut(<<>>, KEY_15, <<ROW_AMBIGUOUS, ROW_PENDING>>),
     MapPut(<<>>, KEY_15, <<ROW_FAILED, ROW_DONE_OK>>),
     MapPut(<<>>, KEY_15, <<ROW_PENDING, ROW_REPAIRED>>)}

ViewImportChoices == {<<PL_ORIG>>, <<PL_EXP>>, <<PL_EXP, PL_ORIG>>}

\* on_import_playlists, several playlists of one key included
on_import_several ==
    /\ ~busy
    /\ ImportPlaylists(ViewImportChoices)

InitViews ==
    /\ EngineIdle
    /\ report_files \in ViewReportChoices
    /\ selection_files \in SelectionFileChoices
    /\ m3u_files = <<>>
    /\ index_exists = TRUE
    /\ WorkerIdle
    /\ UiInit

NextViews ==
    \/ on_import_several
    \/ on_view_mode_changed
    \/ on_search_changed
    \/ RepairResume
    \/ RepairStart
    \/ RepairJob
    \/ WorkerReturn
    \/ OnFinishedRepair

SpecViews == InitViews /\ [][NextViews]_vars

(***************************************************************************)
(* Calls of the functions that read and write no state                     *)
(***************************************************************************)
\* the longest generated argument, in pieces
MaxPieces == 3

\* the texts made of at most n of the given pieces
RECURSIVE TextsUpTo(_, _)
TextsUpTo(pieces, n) ==
    IF n = 0 THEN {<<>>}
    ELSE LET shorter == TextsUpTo(pieces, n - 1)
         IN  shorter \cup {t \o p : t \in shorter, p \in pieces}

StatusPieces ==
    {<<"M","U","L","T","I">>, <<"_","M","A","T","C","H","_","3">>, <<"N","O","T","_","F","O","U","N","D">>, <<"_","I","N","_","L","I","B">>, <<"d","o","n","e">>, <<"_">>, <<"o","k">>,
     STATUS_PENDING, <<" ">>, <<"F","a","i","l">>}

StatusTexts == TextsUpTo(StatusPieces, MaxPieces)

StemPieces ==
    {PREFIX_FIXED, PREFIX_DRAFT, PREFIX_TMP, SUFFIX_SELECTED, <<"1","5">>, <<" ">>, <<"x">>}

StemTexts == TextsUpTo(StemPieces, MaxPieces) \ {<<>>}

NormPieces == {<<"f","e","a","t">>, <<".">>, <<"(","x",")">>, <<"a">>, <<" ">>, <<"'">>, <<"H">>}

NORM_HES == {<<"H","e","'","s">>, <<"H","e","s">>, <<"H","E","'","S">>, <<"H","e","RSQUO","s">>, <<"H","e","BACKTICK","s">>}

NORM_FEAT == {<<"a"," ","f","e","a","t","."," ","b">>, <<"a"," ","f","t","."," ","b">>, <<"a"," ","f","e","a","t"," ","b">>}

NormTexts == TextsUpTo(NormPieces, MaxPieces + 1) \cup NORM_HES \cup NORM_FEAT

JaccardPieces == {<<"a">>, <<"b">>, <<"-">>, <<" ">>, <<"/">>}

JaccardTexts == TextsUpTo(JaccardPieces, MaxPieces - 1)

NOTES_EXAMPLE == <<"c","a","n","d","i","d","a","t","e","s",":"," ","\"","/","m","/","a",".","m","p","3","\""," ","|"," ","'","/","m","/","b",".","f","l","a","c","'"," ","|"," ","n","o","t","_","a","_","p","a","t","h">>

NotesPieces ==
    {CANDIDATES_MARK, <<"C","a","n","d","i","d","a","t","e","s",":">>, <<"\"","/","m","/","a",".","m","p","3","\"">>, <<"'","/","m","/","b",".","f","l","a","c","'">>, <<"|">>, <<" ">>,
     <<"n","o","t","_","a","_","p","a","t","h">>, <<"/","a",".","b","/",".">>}

NotesTexts == TextsUpTo(NotesPieces, MaxPieces) \cup {NOTES_EXAMPLE}

\* the functions called and the arguments each is called with
CallFunctions == {"classify_status", "canonical_key", "norm", "jaccard", "parse_candidates_from_notes"}

ArgsOf(fn) ==
    IF fn = "classify_status" THEN {<<st>> : st \in StatusTexts}
    ELSE IF fn = "canonical_key" THEN {<<stem>> : stem \in StemTexts}
    ELSE IF fn = "norm" THEN {<<s>> : s \in NormTexts}
    ELSE IF fn = "jaccard" THEN JaccardTexts \X JaccardTexts
    ELSE {<<notes>> : notes \in NotesTexts}

\* the call returns value
Returns(value) ==
    /\ call_pc = "called"
    /\ call_ret' = value
    /\ call_pc' = "returned"
    /\ UNCHANGED <<call_fn, call_args>>
    /\ UNCHANGED <<repairVars, matchVars, appVars, scanVars>>

CallClassifyStatus ==
    /\ call_fn = "classify_status"
    /\ Returns(classify_status(call_args[1]))

CallCanonicalKey ==
    /\ call_fn = "canonical_key"
    /\ Returns(canonical_key(call_args[1]))

CallNorm ==
    /\ call_fn = "norm"
    /\ Returns(norm(call_args[1]))

CallJaccard ==
    /\ call_fn = "jaccard"
    /\ Returns(jaccard(call_args[1], call_args[2]))

CallParseCandidates ==
    /\ call_fn = "parse_candidates_from_notes"
    /\ Returns(parse_candidates_from_notes(call_args[1]))

\* one call of one of the functions
InitCalls ==
    /\ RepairIdle /\ MatchIdle /\ music_index = <<>> /\ by_dur = <<>>
    /\ AppIdle
    /\ call_fn \in CallFunctions
    /\ call_args \in ArgsOf(call_fn)
    /\ call_ret = <<>>
    /\ call_pc = "called"
    /\ ScanIdle

NextCalls ==
    \/ CallClassifyStatus
    \/ CallCanonicalKey
    \/ CallNorm
    \/ CallJaccard
    \/ CallParseCandidates

SpecCalls == InitCalls /\ [][NextCalls]_vars


(***************************************************************************)
(* Claims: repair_playlist (checked under SpecRepair)                      *)
(***************************************************************************)
LastRow(rows) == rows[Len(rows)]

\* number of "|" characters of a text
Bars(text) == Cardinality({k \in 1..Len(text) : text[k] = "|"})

\* a unit was handled in this step
UnitStep == Len(report_rows') = Len(report_rows) + 1

\* the row's path is missing, its duration is >= 0 and its display is non-empty
Matchable(r) ==
    /\ r.original_path \notin fs
    /\ r.extinf_duration # None
    /\ r.extinf_duration[1] >= 0
    /\ r.extinf_display # None

\* C1: a unit whose path does not exist and that has a duration >= 0 and a
\* display text is REPAIRED with the matched path emitted when exactly one
\* match was accumulated, AMBIGUOUS with the original path emitted and at
\* most 5 candidate paths in the notes when more than one was, and FAILED
\* with the original path emitted when none was.
C1_Step ==
    (UnitStep /\ Matchable(LastRow(report_rows'))) =>
        LET r == LastRow(report_rows')
            emitted == out_lines'[Len(out_lines')]
            n == Len(all_matches')
        IN  /\ n = 1 => /\ r.status = S_REPAIRED
                        /\ r.written_path = all_matches'[1].path
                        /\ emitted = all_matches'[1].path
            /\ n > 1 => /\ r.status = S_AMBIGUOUS
                        /\ r.written_path = r.original_path
                        /\ emitted = r.original_path
                        /\ Bars(r.notes) + 1 <= 5
                        /\ \A k \in 1..n : k <= 5 => Contains(r.notes, all_matches'[k].path)
            /\ n = 0 => /\ r.status = S_FAILED
                        /\ r.written_path = r.original_path
                        /\ emitted = r.original_path

C1_MatchCountDecides == [][C1_Step]_vars

\* a unit with six accumulated matches has been reported AMBIGUOUS after a
\* unit of the same playlist was KEPT
C1_Witness ==
    /\ rpc = "done"
    /\ Len(report_rows) = 2
    /\ report_rows[1].status = S_KEPT
    /\ report_rows[2].status = S_AMBIGUOUS
    /\ Matchable(report_rows[2])
    /\ Len(all_matches) = 6
    /\ Bars(report_rows[2].notes) = 4

\* C2: every unit whose path exists on disk is KEPT with the original path
\* written, whatever its duration, display or the index; a playlist whose
\* every unit references an existing file ends with kept = total and no
\* REPAIRED, AMBIGUOUS or FAILED.
C2_ExistingPathKept ==
    /\ \A k \in 1..Len(report_rows) :
           report_rows[k].original_path \in fs =>
               /\ report_rows[k].status = S_KEPT
               /\ report_rows[k].written_path = report_rows[k].original_path
    /\ (rpc = "done" /\ \A k \in 1..Len(report_rows) : report_rows[k].original_path \in fs) =>
           /\ kept = total
           /\ kept = Len(report_file)
           /\ repaired = 0 /\ ambiguous = 0 /\ failed = 0
           /\ \A k \in 1..Len(report_file) : report_file[k].status = S_KEPT

\* two units with existing paths were kept against an index that matches
\* their display, one of them without a usable duration
C2_Witness ==
    /\ rpc = "done"
    /\ music_index = <<ITEM_A>>
    /\ total = 2 /\ kept = 2
    /\ report_file[1].extinf_duration = Some(200)
    /\ report_file[1].extinf_display # None
    /\ report_file[2].extinf_duration = None

\* C3: a unit whose path does not exist and whose duration is absent or
\* negative, or whose display is empty, is FAILED_NO_EXTINF with the original
\* path emitted, and matching is not run for it (all_matches is not assigned).
C3_Step ==
    UnitStep =>
        LET r == LastRow(report_rows')
        IN  (/\ r.original_path \notin fs
             /\ \/ r.extinf_duration = None
                \/ r.extinf_duration[1] < 0
                \/ r.extinf_display = None) =>
                /\ r.status = S_FAILED_NO_EXTINF
                /\ r.written_path = r.original_path
                /\ out_lines'[Len(out_lines')] = r.original_path
                /\ all_matches' = all_matches

C3_NoExtinfNotMatched == [][C3_Step]_vars

\* a unit with an empty display and a missing path came after a repaired
\* unit, against an index that holds one entry
C3_Witness ==
    /\ rpc = "done"
    /\ music_index = <<ITEM_C>>
    /\ Len(report_rows) = 2
    /\ report_rows[1].status = S_REPAIRED
    /\ report_rows[2].status = S_FAILED_NO_EXTINF
    /\ report_rows[2].extinf_duration = Some(200)
    /\ report_rows[2].extinf_display = None
    /\ Len(all_matches) = 1


\* the 0-based indexes of the EXTINF lines of ls that have a line after them
\* and are not themselves the line after such a line, from index k on
RECURSIVE UnitStarts(_, _)
UnitStarts(ls, k) ==
    IF k >= Len(ls) THEN <<>>
    ELSE IF StartsWith(ls[k + 1], EXTINF_TAG) /\ k + 1 < Len(ls)
    THEN <<k>> \o UnitStarts(ls, k + 2)
    ELSE UnitStarts(ls, k + 1)

\* the rows whose status is one of sts
RowsWithStatus(rows, sts) == {n \in 1..Len(rows) : rows[n].status \in sts}

AtLoneExtinf ==
    /\ rpc = "loop"
    /\ i < Len(lines)
    /\ StartsWith(lines[i + 1], EXTINF_TAG)
    /\ i + 1 < Len(lines) => StartsWith(lines[i + 2], <<"#">>)

\* C28: an EXTINF line that is not immediately followed by a path line (the
\* next line is another EXTINF line or another "#" line, or there is none)
\* is not processed as an entry: the step that handles it adds no report
\* row, leaves total as it was, and moves to the next line, which is
\* examined as a line of its own.
C28_Step ==
    (AtLoneExtinf /\ i' # i) =>
        /\ report_rows' = report_rows
        /\ total' = total
        /\ i' = i + 1

C28_LoneExtinfIsNoEntry == [][C28_Step]_vars

\* a line as read, without its trailing newline
WithoutNewline(l) ==
    IF l # <<>> /\ l[Len(l)] = "\n" THEN SubSeq(l, 1, Len(l) - 1) ELSE l

\* line k (1-based) is the path line of a unit whose row is REPAIRED
RepairedPathLine(k) ==
    \E n \in 1..Len(report_file) :
        /\ UnitStarts(lines, 0)[n] + 2 = k
        /\ report_file[n].status = S_REPAIRED

\* the written playlist has one line per input line, each equal to its input
\* line but for the path lines of REPAIRED units
OutputFramed ==
    rpc = "done" =>
        /\ Len(output_file) = Len(lines)
        /\ \A k \in 1..Len(lines) :
               \/ output_file[k] = WithoutNewline(lines[k])
               \/ RepairedPathLine(k)

\* a step of the loop moves the line index forward by 1 or by 2
LoopAdvances == (rpc = "loop" /\ rpc' = "loop") => i' \in {i + 1, i + 2}

\* C29: the repair loop terminates for every playlist, advancing the line
\* index by 1 or 2 at each step, and emits exactly one output line per input
\* line in the same order; every output line equals its input line without
\* the trailing newline, except the path line of a REPAIRED unit.
C29_LoopTerminatesAndFrames ==
    /\ <>(rpc = "done")
    /\ [][LoopAdvances]_vars
    /\ []OutputFramed

\* a playlist of four lines was written: a header, a REPAIRED unit whose
\* path line was replaced, and a path line outside any unit
C29_Witness ==
    /\ rpc = "done"
    /\ Len(lines) = 4
    /\ Len(report_file) = 1
    /\ report_file[1].status = S_REPAIRED
    /\ output_file[3] # WithoutNewline(lines[3])
    /\ output_file[4] = WithoutNewline(lines[4])

\* the final playlist of the repaired playlist, once exported
Exported == m3u_files[PL_EXP]

\* C21: the final playlist exported from the report of repair_playlist has
\* the first line #EXTM3U and then, for each report row in row order, the
\* EXTINF line of the entry followed by exactly one path line: every entry
\* keeps the EXTINF line it had in the source playlist.
C21_ExportKeepsExtinf ==
    PL_EXP \in DOMAIN m3u_files =>
        LET us == UnitStarts(lines, 0)
        IN  /\ Exported[1] = M3U_HEADER
            /\ Len(Exported) = 1 + 2 * Len(us)
            /\ \A n \in 1..Len(us) :
                   /\ Exported[2 * n] = WithoutNewline(lines[us[n] + 1])
                   /\ ~StartsWith(Exported[2 * n + 1], EXTINF_TAG)

(***************************************************************************)
(* Claims: find_matches (checked under SpecMatch)                          *)
(***************************************************************************)
\* the positions <<duration, k>> of the bucketed entries
Entries == UNION {{<<d, k>> : k \in 1..Len(by_dur[d])} : d \in DOMAIN by_dur}

EntryAt(p) == by_dur[p[1]][p[2]]

InWindow(d) == q_dur - q_tol <= d /\ d <= q_dur + q_tol

\* normalized title equal to the query title and, when the query has an
\* artist, normalized artist equal to the query artist
IsExact(e) == e.title = q_title /\ (q_artist = None \/ e.artist = q_artist)

ExactEntries == {p \in Entries : InWindow(p[1]) /\ IsExact(EntryAt(p))}

IsFuzzy(e) ==
    IF q_artist # None
    THEN e.artist = q_artist /\ JaccardAtLeast(e.title, q_title, 85)
    ELSE JaccardAtLeast(e.title, q_title, 90)

FuzzyEntries == {p \in Entries : InWindow(p[1]) /\ IsFuzzy(EntryAt(p))}

\* C4: whenever some entry within the duration window is an exact match,
\* find_matches returns exactly the exact matches, one result per entry
\* (one entry gives size 1, two give size 2) and nothing else.
C4_ExactTierReturned ==
    (mpc = "done" /\ ExactEntries # {}) =>
        /\ Len(q_result) = Cardinality(ExactEntries)
        /\ Range(q_result) = {EntryAt(p) : p \in ExactEntries}

\* two exact entries and one entry that only the fuzzy stage would accept
C4_Witness ==
    /\ mpc = "done"
    /\ q_tol = 2 /\ q_title = T6 /\ q_artist = <<"a">>
    /\ DOMAIN by_dur = {198, 200, 202}
    /\ Cardinality(ExactEntries) = 2
    /\ Cardinality(FuzzyEntries) = 3
    /\ Len(q_result) = 2

\* C5: an entry is a candidate exactly when its duration d satisfies
\* query - tolerance <= d <= query + tolerance: every result lies in the
\* window, and an entry that is an exact match is returned if and only if
\* its duration lies in the window.
C5_DurationWindow ==
    mpc = "done" =>
        /\ \A k \in 1..Len(q_result) : InWindow(q_result[k].duration)
        /\ \A p \in Entries :
               (q_title # None /\ IsExact(EntryAt(p))) =>
                   (EntryAt(p) \in Range(q_result) <=> InWindow(p[1]))

\* tolerance 2, query 200: entries at 198 and 202 returned, 197 and 203 not
C5_Witness ==
    /\ mpc = "done"
    /\ q_dur = 200 /\ q_tol = 2 /\ q_title = T6
    /\ DOMAIN by_dur = {197, 198, 202, 203}
    /\ \A p \in Entries : IsExact(EntryAt(p))
    /\ {q_result[k].duration : k \in 1..Len(q_result)} = {198, 202}

\* C6: when no entry within the window is an exact match, find_matches
\* returns exactly the entries within the window with, for a query with an
\* artist, the same artist and jaccard >= 0.85, and for a query without an
\* artist, jaccard >= 0.90.
C6_FuzzyTierReturned ==
    (mpc = "done" /\ ExactEntries = {}) =>
        /\ Len(q_result) = Cardinality(FuzzyEntries)
        /\ Range(q_result) = {EntryAt(p) : p \in FuzzyEntries}

\* similarity 6/7: returned for the entry of the query's artist, not for the
\* entry of another artist
C6_Witness ==
    /\ mpc = "done"
    /\ q_tol = 2 /\ q_title = T6 /\ q_artist = <<"a">>
    /\ DOMAIN by_dur = {200, 201}
    /\ ExactEntries = {}
    /\ Len(q_result) = 1
    /\ q_result[1].title = T7 /\ q_result[1].artist = <<"a">>
    /\ \E p \in Entries : EntryAt(p).title = T7 /\ EntryAt(p).artist = <<"b">>



\* the index entries with a path and a duration in the window of the query
\* whose normalized title is the title of the query
TitleEntries ==
    {k \in 1..Len(music_index) :
        /\ music_index[k].path # None
        /\ music_index[k].duration # None
        /\ InWindow(music_index[k].duration[1])
        /\ q_title # None
        /\ norm(music_index[k].title) = q_title}

\* C30: the candidates of find_matches are all the index entries whose
\* duration is in the tolerance window, an entry without artist among them:
\* a title-only query whose title is the normalized title of such an entry
\* and whose duration is within the tolerance returns that entry.
C30_TitleOnlyFindsArtistless ==
    (mpc = "done" /\ q_artist = None) =>
        \A k \in TitleEntries :
            \E n \in 1..Len(q_result) :
                /\ q_result[n].path = music_index[k].path
                /\ q_result[n].title = q_title

(***************************************************************************)
(* Claims: export_fixed_multi (checked under SpecExport)                   *)
(***************************************************************************)
\* the report rows a job reads
JobRows(job) == read_report_rows(MapGet(report_files, job.report_csv))

\* the original path of a report row
OrigOf(r) == Strip(Or(RGet(r, "original_path"), RGet(r, "original")))

\* the first non-blank value among the final-path columns, <<>> if all are blank
FirstFinal(r) ==
    LET filled == {k \in 1..Len(FINAL_KEYS) : Strip(RGet(r, FINAL_KEYS[k])) # <<>>}
    IN  IF filled = {} THEN <<>>
        ELSE Strip(r[FINAL_KEYS[CHOOSE k \in filled : \A j \in filled : k <= j]])

\* the manual selection of a row in the selections of a job, <<>> if none
ChosenFor(r, selections) ==
    IF r.row_index \in DOMAIN selections THEN selections[r.row_index] ELSE <<>>

\* the path the precedence rule gives a row
ByPrecedence(r, selections) ==
    IF ChosenFor(r, selections) # <<>> THEN ChosenFor(r, selections)
    ELSE IF classify_status(RGet(r, "status")) = "RESOLVED" /\ FirstFinal(r) # <<>>
    THEN FirstFinal(r)
    ELSE OrigOf(r)

\* the position of the path line of row k in the exported file
PathLineAt(rows, k) ==
    1 + k + Cardinality({j \in 1..k : ExtinfLineOf(rows[j]) # <<>>})

\* C7: in every file export_fixed_multi has written, the path line of each
\* report row is the non-empty manual selection for its row_index, else for
\* a row whose status classifies as RESOLVED the first non-empty value among
\* the final-path columns or, when all are empty, the original path, else
\* the original path; the notes and candidates columns never supply it.
C7_PathPrecedence ==
    worker_func = "export" =>
        \A j \in 1..job_i :
            /\ worker_kwargs[j].out_m3u \in DOMAIN m3u_files
            /\ m3u_files[worker_kwargs[j].out_m3u][1] = M3U_HEADER
            /\ \A k \in 1..Len(JobRows(worker_kwargs[j])) :
                   m3u_files[worker_kwargs[j].out_m3u][PathLineAt(JobRows(worker_kwargs[j]), k)]
                       = ByPrecedence(JobRows(worker_kwargs[j])[k], worker_kwargs[j].selections)

\* a selected row, an unresolved row with a written path and candidates, and
\* a resolved row whose first final-path column is blank: one line by each rule
C7_Witness ==
    /\ worker_func = "export" /\ job_i >= 1
    /\ report_files[KEY_15] = <<EXP_REPAIRED, EXP_AMBIGUOUS, EXP_KEPT>>
    /\ worker_kwargs[1].selections = MapPut(<<>>, ROW_0, SEL_S)
    /\ m3u_files[worker_kwargs[1].out_m3u]
           = <<M3U_HEADER, SEL_S, ORIG, <<"/","f",".","x">>>>


(***************************************************************************)
(* Claims: selections across Apply and Save (checked under SpecApp)        *)
(***************************************************************************)
\* the step in which _on_finished handles the result of a completed Save
SaveCompletes ==
    /\ worker_pc = "finished" /\ worker_func = "export" /\ result = "done"
    /\ worker_pc' = "idle"

\* some imported playlist with this key is a previously exported file
ExportedKey(key) ==
    \E k \in 1..Len(playlists) :
        is_exported_playlist(playlists[k]) /\ canonical_key(playlists[k]) = key

\* the path line the file of the job holds for the row with this row_index
ExportedFor(job, row) ==
    {m3u_files[job.out_m3u][PathLineAt(JobRows(job), k)] :
        k \in {n \in 1..Len(JobRows(job)) : JobRows(job)[n].row_index = row}}

\* the unresolved view as built from the state after the step
UnresolvedAfter ==
    BuildUnresolved(playlists', report_rows_by_key', selection_files',
                    session_repaired_keys', saved_keys', <<<<>>, <<>>, selections_by_key'>>)

\* the row is shown in one of the two tables of the view
ShownIn(view, key, row) ==
    \E pane \in {1, 2} : \E k \in 1..Len(view[pane]) :
        view[pane][k].pl_key = key /\ view[pane][k].row_index = row

\* a selection of the session stays as applied until the next import or Apply
SessionKept ==
    \A key \in DOMAIN selections_by_key : \A row \in DOMAIN selections_by_key[key] :
        /\ row \in DOMAIN MapGet(selections_by_key', key)
        /\ selections_by_key'[key][row] = selections_by_key[key][row]

\* the jobs of a Save that starts hold the selections of the session
SaveTakesSession ==
    (worker_pc = "idle" /\ worker_func' = "export") =>
        \A j \in 1..Len(worker_kwargs') :
            worker_kwargs'[j].selections
                = MapGet(selections_by_key, worker_kwargs'[j].report_csv)

C8_Step ==
    SaveCompletes =>
        \A j \in 1..Len(worker_kwargs) :
            ExportedKey(worker_kwargs[j].report_csv) =>
                \A row \in DOMAIN MapGet(selection_files, worker_kwargs[j].report_csv)
                           \cap DOMAIN worker_kwargs[j].selections :
                    /\ ExportedFor(worker_kwargs[j], row) = {worker_kwargs[j].selections[row]}
                    /\ row \in DOMAIN MapGet(selection_files', worker_kwargs[j].report_csv)
                    /\ selection_files'[worker_kwargs[j].report_csv][row]
                           = worker_kwargs[j].selections[row]
                    /\ ~ShownIn(UnresolvedAfter, worker_kwargs[j].report_csv, row)

\* C8: for a row of a previously exported playlist that has a persisted
\* selection P and a session selection S when Save is pressed, the path the
\* Save exports for the row is S, the persisted selection of the row is S
\* once the Save has completed, and the unresolved view built after the
\* reload that follows does not show the row.  S is the value Apply gave the
\* row: a session selection stays as applied until the next Apply or
\* import, and a Save that starts takes the selections of the session.
C8_SessionOverPersisted ==
    [][/\ on_import_playlists \/ on_apply_choice \/ SessionKept
       /\ SaveTakesSession
       /\ C8_Step]_vars

\* the Save has exported /a.x, which only Apply can have chosen, for row 0
\* whose persisted selection is still /p.x; _on_finished is about to run
C8_Witness ==
    /\ worker_pc = "finished" /\ worker_func = "export" /\ result = "done"
    /\ playlists = <<PL_EXP>>
    /\ MapGet(selection_files, KEY_15) = MapPut(<<>>, ROW_0, SEL_P)
    /\ worker_kwargs[1].selections = MapPut(<<>>, ROW_0, <<"/","a",".","x">>)
    /\ m3u_files[worker_kwargs[1].out_m3u] = <<M3U_HEADER, <<"/","a",".","x">>>>

\* the value the claim gives a row after the Save: the session value if one
\* exists, otherwise the old persisted value
MergedValue(key, row) ==
    IF row \in DOMAIN MapGet(selections_by_key, key)
    THEN selections_by_key[key][row]
    ELSE selection_files[key][row]

C9_Step ==
    SaveCompletes =>
        \A j \in 1..Len(worker_kwargs) :
            ExportedKey(worker_kwargs[j].report_csv) =>
                \A row \in DOMAIN MapGet(selection_files, worker_kwargs[j].report_csv) :
                    /\ row \in DOMAIN MapGet(selection_files', worker_kwargs[j].report_csv)
                    /\ selection_files'[worker_kwargs[j].report_csv][row]
                           = MergedValue(worker_kwargs[j].report_csv, row)
                    /\ ExportedFor(worker_kwargs[j], row)
                           = {MergedValue(worker_kwargs[j].report_csv, row)}

\* C9: when a Save completes, every row of a previously exported playlist
\* that had a persisted selection before the Save still has one afterwards
\* (the session value if one exists, otherwise the old persisted value) and
\* the exported playlist uses it, whatever imports, view-mode changes and
\* applies came before, the Resolved view being active during import included.
C9_PersistedRowsSurviveSave == [][C9_Step]_vars

C10_Step ==
    selection_files' # selection_files =>
        /\ SaveCompletes
        /\ last_action = "SAVE"
        /\ \A key \in DOMAIN selection_files \cup DOMAIN selection_files' :
               MapGet(selection_files', key) # MapGet(selection_files, key) =>
                   key \in Range(pending_save_keys)

\* C10: the persisted selection files change only in the step in which a Save
\* task that completed successfully is handled, and then only for the keys of
\* that Save; Apply, Browse, import, repair, view-mode change, search change
\* and a failed or cancelled Save leave every persisted selection file as it was.
C10_PersistedOnlyOnSave == [][C10_Step]_vars

\* after a Save that failed or was cancelled (_last_action is still "SAVE"):
\* the session holds the applied /a.x, the file still holds /p.x
C10_Witness ==
    /\ worker_pc = "idle" /\ ~busy
    /\ last_action = "SAVE"
    /\ MapGet(selections_by_key, KEY_15) = MapPut(<<>>, ROW_0, <<"/","a",".","x">>)
    /\ selection_files = MapPut(<<>>, KEY_15, MapPut(<<>>, ROW_0, SEL_P))


(***************************************************************************)
(* Claims: the functions without state (checked under SpecCalls)           *)
(***************************************************************************)
\* the call of fn has returned
Returned(fn) == call_pc = "returned" /\ call_fn = fn

\* the text u holds one of the words as a run of consecutive characters
Mentions(words, u) ==
    \E w \in words : \E a \in 0..(Len(u) - Len(w)) : SubSeq(u, a + 1, a + Len(w)) = w

\* C11: classify_status decides on the trimmed, upper-cased status by keyword
\* containment in the order resolved, ambiguous, failed: RESOLVED if it holds
\* a resolved keyword, else AMBIGUOUS if it holds an ambiguous keyword, else
\* FAILED if it holds a failed keyword, else unknown (""); "MULTI_MATCH_3" is
\* AMBIGUOUS, "NOT_FOUND_IN_LIB" is FAILED, "done_ok" is RESOLVED, "PENDING"
\* is unknown, and a status without a failed keyword is never FAILED.
C11_ClassifiedByPriority ==
    Returned("classify_status") =>
        LET u == Upper(Strip(call_args[1]))
            res == Mentions(RESOLVED_KEYWORDS, u)
            amb == Mentions(AMBIGUOUS_KEYWORDS, u)
            fail == Mentions(FAILED_KEYWORDS, u)
        IN  /\ res => call_ret = "RESOLVED"
            /\ ~res /\ amb => call_ret = "AMBIGUOUS"
            /\ ~res /\ ~amb /\ fail => call_ret = "FAILED"
            /\ ~res /\ ~amb /\ ~fail => call_ret = ""
            /\ call_args[1] = STATUS_MULTI_MATCH_3 => call_ret = "AMBIGUOUS"
            /\ call_args[1] = STATUS_NOT_FOUND_IN_LIB => call_ret = "FAILED"
            /\ call_args[1] = STATUS_DONE_OK => call_ret = "RESOLVED"
            /\ call_args[1] = STATUS_PENDING => call_ret = ""

\* a status with an ambiguous and a failed keyword was classified AMBIGUOUS
C11_Witness ==
    /\ Returned("classify_status")
    /\ Mentions(AMBIGUOUS_KEYWORDS, Upper(Strip(call_args[1])))
    /\ Mentions(FAILED_KEYWORDS, Upper(Strip(call_args[1])))
    /\ call_ret = "AMBIGUOUS"


(***************************************************************************)
(* Claims: the rows of the two views (checked under SpecViews)             *)
(***************************************************************************)
\* the rows of the tables, before and after the search filter
TableRows == ambiguous_rows_all \o failed_rows_all \o ambiguous_rows \o failed_rows

\* a table shows the row of that key and row index
RowShown(key, row_index) ==
    \E n \in 1..Len(TableRows) :
        TableRows[n].pl_key = key /\ TableRows[n].row_index = row_index

\* the session or the selection file of the key holds a selection for the row
HasSelection(key, row_index) ==
    \/ row_index \in DOMAIN MapGet(selections_by_key, key)
    \/ row_index \in DOMAIN MapGet(selection_files, key)

\* the cached report rows of a key whose status classifies as kind
RowsOfKind(key, kind) ==
    {n \in 1..Len(report_rows_by_key[key]) :
        classify_status(RGet(report_rows_by_key[key][n], "status")) = kind}

MasterShown(key, row_index) ==
    \E row \in Range(ambiguous_rows_all \o failed_rows_all) :
        row.pl_key = key /\ row.row_index = row_index

\* the playlists whose report rows the views read
ReadPlaylists ==
    {k \in 1..Len(playlists) :
        ~SkippedPlaylist(playlists[k], report_rows_by_key, session_repaired_keys)}

\* C13: the resolved view holds every report row whose status classifies as
\* RESOLVED by the keywords ("done_ok", "REPAIRED_AUTO") and every row with a
\* manual selection, so a row the unresolved view drops as resolved is never
\* missing from the resolved view.
C13_ResolvedViewComplete ==
    view_mode = "RESOLVED" /\ ~busy =>
        \A k \in ReadPlaylists :
            \A n \in 1..Len(report_rows_by_key[canonical_key(playlists[k])]) :
                LET key == canonical_key(playlists[k])
                    rr == report_rows_by_key[key][n]
                IN  \/ classify_status(RGet(rr, "status")) = "RESOLVED"
                    \/ rr.row_index \in DOMAIN MapGet(selections_by_key, key)
                    => MasterShown(key, rr.row_index)


\* the master rows that come from the playlist
MasterRowsOf(pl) ==
    LET Is(row) == row.playlist = pl
    IN  SelectSeq(ambiguous_rows_all \o failed_rows_all, Is)

\* C14: a playlist that is not an exported one never gets persisted
\* selections: none of its rows is hidden from the unresolved view or shown
\* as manually resolved because of a selection file, and until a repair of
\* its key is started in the session none of its report rows is in a view.
C14_FreshImportIgnoresPersisted ==
    \A k \in 1..Len(playlists) :
        LET pl == playlists[k]
            key == canonical_key(pl)
            rows == MasterRowsOf(pl)
        IN  ~is_exported_playlist(pl) =>
                /\ key \notin session_repaired_keys => rows = <<>>
                /\ view_mode = "RESOLVED" =>
                       \A n \in 1..Len(rows) : ~StartsWith(rows[n].notes, TAG_MANUAL)
                /\ view_mode = "UNRESOLVED" /\ ~busy /\ key \in session_repaired_keys =>
                       \A n \in RowsOfKind(key, "AMBIGUOUS") \cup RowsOfKind(key, "FAILED") :
                           \E m \in 1..Len(rows) :
                               rows[m].row_index = report_rows_by_key[key][n].row_index


(***************************************************************************)
(* Claims: canonical_key (checked under SpecCalls)                         *)
(***************************************************************************)
\* the stems the claim speaks of: not empty, no white space around, no
\* generated prefix in front and no generated suffix behind
BaseStems ==
    {s \in StemTexts :
        /\ Strip(s) = s
        /\ ~StartsWith(s, PREFIX_TMP) /\ ~StartsWith(s, PREFIX_DRAFT)
        /\ ~StartsWith(s, PREFIX_FIXED)
        /\ ~EndsWith(s, SUFFIX_SELECTED)}

\* s.m3u, fixed_s.m3u, draft_fixed_s.m3u, __tmp_fixed_s.m3u, fixed_s_selected.m3u
Variants(s) ==
    {s, PREFIX_FIXED \o s, PREFIX_DRAFT \o s, PREFIX_TMP \o s,
     PREFIX_FIXED \o s \o SUFFIX_SELECTED}

\* C15: for a base stem s (not empty, no surrounding white space, no generated
\* prefix in front, no generated suffix behind) canonical_key gives s for
\* s, fixed_s, draft_fixed_s, __tmp_fixed_s and fixed_s_selected.
C15_VariantsCollapse ==
    Returned("canonical_key") =>
        \A s \in BaseStems : call_args[1] \in Variants(s) => call_ret = s

\* canonical_key was called on fixed_15_selected and gave 15
C15_Witness ==
    /\ Returned("canonical_key")
    /\ call_args[1] = PL_EXP
    /\ call_ret = KEY_15

\* C16: for every playlist stem p, also one holding a generated prefix or
\* suffix more than once, the exported name and the working copy made from p
\* have the key of p: canonical_key(fixed_{key}_selected) = canonical_key(p)
\* and canonical_key(__tmp_fixed_{key}) = canonical_key(p).
C16_GeneratedNamesKeepKey ==
    Returned("canonical_key") =>
        /\ canonical_key(export_stem_for(call_args[1])) = call_ret
        /\ canonical_key(tmp_stem_for(call_args[1])) = call_ret


(***************************************************************************)
(* Claims: norm and jaccard (checked under SpecCalls)                      *)
(***************************************************************************)
\* C17: norm is idempotent: norm(norm(x)) = norm(x) for every text x, absent
\* included, also when the removal of a bracketed span joins the text around
\* it (a span between "feat" and ".").
C17_NormIdempotent ==
    Returned("norm") => norm(call_ret) = call_ret

\* the apostrophes and quotes norm knows
QUOTE_VARIANTS == {"'", "RSQUO", "LSQUO", "BACKTICK", "ACUTE"}

\* x with every apostrophe and quote variant deleted
WithoutQuotes(x) ==
    LET Keep(c) == c \notin QUOTE_VARIANTS
    IN  SelectSeq(x, Keep)

\* C18: norm does not see letter case or apostrophes: norm(x) is norm of x
\* in upper case, norm of x in lower case and norm of x without its
\* apostrophe and quote variants; norm("He's") = norm("Hes") = norm("HE'S").
C18_NormIgnoresCaseAndQuotes ==
    Returned("norm") =>
        /\ norm(Upper(call_args[1])) = call_ret
        /\ norm(Lower(call_args[1])) = call_ret
        /\ norm(WithoutQuotes(call_args[1])) = call_ret
        /\ call_args[1] \in NORM_HES => call_ret = <<"h","e","s">>

\* norm was called on He + right single quote + s and gave hes
C18_Witness ==
    /\ Returned("norm")
    /\ call_args[1] = <<"H","e","RSQUO","s">>
    /\ call_ret = <<"h","e","s">>


\* the fraction is 1.0
IsOne(j) == j[1] = j[2]

\* the fraction is 0.0
IsZero(j) == j[1] = 0

\* C19: jaccard(x, x) = 1.0 for every text x that is not empty, a text of
\* separator punctuation only included; jaccard(a, b) = jaccard(b, a); and
\* jaccard is 0.0 when an argument is empty or absent.
C19_JaccardLaws ==
    Returned("jaccard") =>
        /\ call_args[1] = call_args[2] /\ call_args[1] # <<>> => IsOne(call_ret)
        /\ jaccard(call_args[2], call_args[1]) = call_ret
        /\ call_args[1] = <<>> \/ call_args[2] = <<>> => IsZero(call_ret)


(***************************************************************************)
(* Claims: _parse_candidates_from_notes (checked under SpecCalls)          *)
(***************************************************************************)
\* s without the characters c at its two ends
RECURSIVE TrimChar(_, _)
TrimChar(s, c) ==
    IF s # <<>> /\ s[1] = c THEN TrimChar(Tail(s), c)
    ELSE IF s # <<>> /\ s[Len(s)] = c THEN TrimChar(SubSeq(s, 1, Len(s) - 1), c)
    ELSE s

\* the positions of the marker "candidates:" in t, whatever the case
MarkPositions(t) ==
    {k \in 1..Len(t) :
        /\ k + Len(CANDIDATES_MARK) - 1 <= Len(t)
        /\ Lower(SubSeq(t, k, k + Len(CANDIDATES_MARK) - 1)) = CANDIDATES_MARK}

\* the text the tokens are taken from
TokenText(t) ==
    IF MarkPositions(t) = {} THEN t
    ELSE Strip(SubSeq(t, (CHOOSE k \in MarkPositions(t) : \A j \in MarkPositions(t) : k <= j)
                             + Len(CANDIDATES_MARK), Len(t)))

\* the tokens of t between its "|" characters, in order
BarTokens(t) ==
    LET bars == {k \in 1..Len(t) : t[k] = "|"}
        cuts == {0} \cup bars \cup {Len(t) + 1}
        Next(a) == CHOOSE b \in cuts : b > a /\ \A c \in cuts : c > a => b <= c
        starts == SelectSeq([k \in 1..(Len(t) + 1) |-> k - 1], LAMBDA a : a \in {0} \cup bars)
    IN  [n \in 1..Len(starts) |-> SubSeq(t, starts[n] + 1, Next(starts[n]) - 1)]

\* a token trimmed, then without double quotes, then without single quotes
Unquoted(tok) == TrimChar(TrimChar(Strip(tok), "\""), "'")

\* the token holds a path separator, its basename a "." and 3 characters
IsPathToken(p) ==
    /\ \E k \in 1..Len(p) : p[k] \in {"/", "\\"}
    /\ \E k \in 1..Len(PathName(p)) : PathName(p)[k] = "."
    /\ Len(PathName(p)) >= 3

NOTES_EXAMPLE_PATHS == <<<<"/","m","/","a",".","m","p","3">>, <<"/","m","/","b",".","f","l","a","c">>>>

\* C20: _parse_candidates_from_notes takes the text after the first marker
\* "candidates:" (in any case) when there is one, splits it on "|", trims
\* each token and strips its quotes, and returns in order exactly the tokens
\* that hold a path separator and whose basename holds a "." and has at
\* least 3 characters; the notes
\* candidates: "/m/a.mp3" | '/m/b.flac' | not_a_path  give the two paths.
C20_CandidatesFromNotes ==
    Returned("parse_candidates_from_notes") =>
        LET toks == BarTokens(TokenText(Strip(call_args[1])))
            unq == [n \in 1..Len(toks) |-> Unquoted(toks[n])]
        IN  /\ call_ret = SelectSeq(unq, IsPathToken)
            /\ call_args[1] = NOTES_EXAMPLE => call_ret = NOTES_EXAMPLE_PATHS

\* the notes of the example were parsed into the two paths
C20_Witness ==
    /\ Returned("parse_candidates_from_notes")
    /\ call_args[1] = NOTES_EXAMPLE
    /\ call_ret = NOTES_EXAMPLE_PATHS


(***************************************************************************)
(* The music folders and the scan                                          *)
(***************************************************************************)
\* the application started without an index, over a tree of music files
InitScan ==
    /\ RepairIdle /\ MatchIdle /\ CallIdle /\ music_index = <<>> /\ by_dur = <<>>
    /\ AppIdle
    /\ tree \in MusicTrees
    /\ music_roots = <<>>
    /\ scan_items = <<>>
    /\ scan_stats = <<>>
    /\ index_file = <<>>
    /\ stats_file = <<>>

NextScan ==
    \/ on_add_music
    \/ on_clear_music_roots
    \/ on_scan_index
    \/ ScanJob
    \/ ScanReturn
    \/ Cancel
    \/ WorkerCancelled
    \/ OnFinishedOther

SpecScan == InitScan /\ [][NextScan]_vars


\* info.length exists and is not 0: the file has a duration to read
HasLength(audio) == audio.kind = "audio" /\ audio.length # None /\ audio.length[1] # 0

\* File gives a duration on the easy or on the raw pass
DurationResolvable(f) == HasLength(f.easy) \/ HasLength(f.raw)

\* the supported files under the roots scan_index has scanned so far
ScannedFiles ==
    {k \in 1..Len(tree) :
        /\ IsSupported(tree[k])
        /\ \E r \in 1..job_i : IsUnder(worker_kwargs[r], tree[k])}

\* the files of the tree that have an item in the list
IndexedIn(items) == {k \in 1..Len(tree) : \E n \in 1..Len(items) : items[n].path = tree[k].path}

\* C24: during and after a scan, a supported file under a scanned root is
\* missing from the items if and only if no duration could be read for it,
\* whatever its tags are and whether or not File raised on it, and the counts
\* agree: scanned_supported == number of items + skipped_no_duration.
C24_OnlyNoDurationIsSkipped ==
    worker_func = "scan" =>
        /\ \A k \in ScannedFiles : k \in IndexedIn(scan_items) <=> DurationResolvable(tree[k])
        /\ scan_stats.scanned_supported = Len(scan_items) + scan_stats.skipped_no_duration

\* C26: the index scan_index has written holds no two entries of one path,
\* whichever folders were added, one inside another included.
C26_IndexPathsUnique ==
    \A a, b \in 1..Len(index_file) : index_file[a].path = index_file[b].path => a = b


(***************************************************************************)
(* Claims: cancelled and failed batches (checked under SpecExport)         *)
(***************************************************************************)
\* C22: when the runner function returns its cancelled result, no file of
\* the run is committed: the final playlists (none was there when
\* export_fixed_multi started), the reports and the index are as they were
\* before the run, also when jobs had been done before the cancel was seen.
C22_CancelCommitsNothing ==
    (worker_pc = "finished" /\ worker_cancelled /\ result = "none") =>
        /\ m3u_files = <<>>
        /\ index_file = <<>> /\ stats_file = <<>>

\* C23: an exception in one job does not end the batch: when the Worker is
\* over and was not cancelled, it has finished and every job was processed.
C23_ExceptionDoesNotAbort ==
    (worker_pc \in {"finished", "failed"} /\ ~worker_cancelled) =>
        /\ worker_pc = "finished"
        /\ job_i = Len(worker_kwargs)


(***************************************************************************)
(* The three batch operations of the window: scan, repair and save         *)
(***************************************************************************)
\* the application started without an index, one music file on disk
InitTasks ==
    /\ RepairIdle /\ MatchIdle /\ CallIdle /\ music_index = <<>> /\ by_dur = <<>>
    /\ report_files \in ReportFileChoices
    /\ selection_files = <<>>
    /\ m3u_files = <<>>
    /\ index_exists = FALSE
    /\ WorkerIdle
    /\ UiInit
    /\ tree = <<FILE_TAGGED>>
    /\ music_roots = <<>>
    /\ scan_items = <<>>
    /\ scan_stats = <<>>
    /\ index_file = <<>>
    /\ stats_file = <<>>

\* a step of the runner function, or the slot of the signal the Worker emitted
TaskAdvances ==
    \/ ScanJob
    \/ ScanReturn
    \/ RepairJob
    \/ ExportJob
    \/ WorkerCancelled
    \/ WorkerReturn
    \/ OnFinishedRepair
    \/ OnFinishedSave
    \/ OnFinishedOther
    \/ OnFailed

NextTasks ==
    \/ on_add_music
    \/ on_scan_index
    \/ on_import_several
    \/ RepairStart
    \/ on_save_fixed
    \/ Cancel
    \/ WorkerRaise
    \/ TaskAdvances

SpecTasks == InitTasks /\ [][NextTasks]_vars

\* while a Worker is there, the runner function or the slot of its signal
\* takes a step: the position of the Worker or its loop index changes
WorkerAdvances ==
    /\ worker_pc # "idle"
    /\ \E pc \in {"idle", "running", "finished", "failed"} :
       \E k \in 0..(Len(worker_kwargs) + 1) :
           /\ worker_pc' = pc
           /\ job_i' = k
           /\ <<pc, k>> # <<worker_pc, job_i>>

\* the thread of the Worker runs on, and the event loop delivers its signal
SpecTasksLive == SpecTasks /\ WF_<<worker_pc, job_i>>(WorkerAdvances)

\* a step that starts a Worker
TaskStarts ==
    /\ worker_pc' = "running"
    /\ \/ worker_pc # "running"
       \/ job_i' < job_i
       \/ worker_func' # worker_func
       \/ worker_kwargs' # worker_kwargs

\* a Worker is started only when none is there, and the slot that receives
\* the signal of the Worker clears the busy flag
C27_Step ==
    /\ TaskStarts => (~busy /\ worker_pc = "idle" /\ busy')
    /\ (worker_pc \in {"finished", "failed"} /\ worker_pc' # worker_pc) =>
           (worker_pc' = "idle" /\ ~busy')

\* C27: at most one batch operation is active: the window is busy exactly
\* while a Worker is there, a Worker is started only from the idle window,
\* whichever of scan, repair and save is asked for, and every task, finished,
\* cancelled or failed, leads to the busy flag being cleared.
C27_OneTaskAtATime ==
    /\ [](busy <=> worker_pc # "idle")
    /\ [][C27_Step]_vars
    /\ (busy ~> ~busy)

\* a scan has finished, a save was started after it and ended, cancelled or
\* failed, before it wrote a playlist, and the window is idle again
C27_Witness ==
    /\ ~busy /\ worker_pc = "idle"
    /\ index_exists
    /\ report_files # <<>>
    /\ pending_save_keys # <<>>
    /\ m3u_files = <<>>


\* the artist the tags of the file give: the easy ones first, then the raw ones
TagArtist(f) ==
    Or(IF IsTrue(f.easy) THEN read_easy_tags(f.easy)[2] ELSE None,
       IF IsTrue(f.raw) THEN read_raw_tags(f.raw)[2] ELSE None)

\* the items of the list made for the file at position k of the tree
ItemsOfFile(items, k) == {n \in 1..Len(items) : items[n].path = tree[k].path}

\* C31: the tiers are applied per field: the artist of an indexed file is the
\* artist of its easy tags, else the artist of its raw tags, and the guess
\* from the path only when neither gives one.
C31_ArtistTierPerField ==
    worker_func = "scan" =>
        \A k \in ScannedFiles : \A n \in ItemsOfFile(scan_items, k) :
            scan_items[n].artist =
                IF TagArtist(tree[k]) # None THEN TagArtist(tree[k])
                ELSE guess_artist_from_path(tree[k].path)


(***************************************************************************)
(* Claims: the matches of one unit (checked under SpecRepair)              *)
(***************************************************************************)
\* all_matches after the pass over the pairs of the display text, with the
\* artists of the pairs (title_only = FALSE) or without them
PassOver(r, title_only) ==
    Accumulate(by_dur, DUR_TOL_DEFAULT, candidate_pairs_from_display(r.extinf_display),
               r.extinf_duration[1], title_only, <<>>)

\* C32: the title-only pass over the pairs decides all_matches exactly when
\* the first pass found no match; a unit whose first pass found one match is
\* REPAIRED with it, whatever the title-only pass would find.
C32_Step ==
    (UnitStep /\ Matchable(LastRow(report_rows'))) =>
        LET r == LastRow(report_rows')
            first == PassOver(r, FALSE)
        IN  /\ first # <<>> => all_matches' = first
            /\ first = <<>> => all_matches' = PassOver(r, TRUE)
            /\ Len(first) = 1 => (r.status = S_REPAIRED /\ r.written_path = first[1].path)

C33_MatchesDistinctByPath ==
    \A a, b \in 1..Len(all_matches) : all_matches[a].path = all_matches[b].path => a = b


(***************************************************************************)
(* Claims: the feat token of norm (checked under SpecCalls)                *)
(***************************************************************************)
\* the token tok ("feat." or "ft.") stands at position p of x: the text
\* starts or a space stands before it, the text ends or a space stands after
FeatTokenAt(x, tok, p) ==
    /\ OccursAt(x, tok, p)
    /\ p = 1 \/ IsSpace(x[p - 1])
    /\ p + Len(tok) > Len(x) \/ IsSpace(x[p + Len(tok)])

\* x with the token of length n at position p written as feat
FeatWritten(x, n, p) ==
    Slice(x, 1, p - 1) \o <<"f","e","a","t">> \o Slice(x, p + n, Len(x))

\* C34: norm reads the tokens "feat." and "ft." as "feat" wherever they stand
\* as tokens, before a space or at the end of the text included:
\* norm("a feat. b") = norm("a ft. b") = norm("a feat b").
C34_FeatTokenNormalized ==
    Returned("norm") =>
        /\ \A tok \in {<<"f","e","a","t",".">>, <<"f","t",".">>} :
           \A p \in 1..Len(call_args[1]) :
               FeatTokenAt(call_args[1], tok, p) =>
                   norm(FeatWritten(call_args[1], Len(tok), p)) = call_ret
        /\ call_args[1] \in NORM_FEAT => call_ret = <<"a"," ","f","e","a","t"," ","b">>


(***************************************************************************)
(* Claims: hidden rows and failed tasks (checked under SpecApp)            *)
(***************************************************************************)
\* the unresolved view as built from the state
UnresolvedNow ==
    BuildUnresolved(playlists, report_rows_by_key, selection_files,
                    session_repaired_keys, saved_keys, <<<<>>, <<>>, selections_by_key>>)

\* the unresolved view with the selections on disk and none in memory
UnresolvedOfDisk ==
    BuildUnresolved(playlists, report_rows_by_key, selection_files,
                    session_repaired_keys, saved_keys, <<<<>>, <<>>, <<>>>>)

\* the row is hidden from the unresolved view by its selection of the session:
\* the view would show it if the session had no selection
HiddenBySession(key, row) ==
    /\ row \in DOMAIN MapGet(selections_by_key, key)
    /\ ShownIn(UnresolvedOfDisk, key, row)
    /\ ~ShownIn(UnresolvedNow, key, row)

\* C35: a row the unresolved view hides because of its selection of the
\* session has that selection in the persisted map of its key: an unsaved
\* selection does not hide its row.
C35_UnsavedRowsStayShown ==
    \A key \in DOMAIN selections_by_key : \A row \in DOMAIN selections_by_key[key] :
        HiddenBySession(key, row) =>
            /\ row \in DOMAIN MapGet(selection_files, key)
            /\ selection_files[key][row] = selections_by_key[key][row]


(***************************************************************************)
(* Repairs that end before a report is rewritten                           *)
(***************************************************************************)
\* the application on a reports folder of earlier sessions, where every
\* repair is cancelled or fails before its first playlist is done
NextRepairAborted ==
    \/ on_import_several
    \/ on_view_mode_changed
    \/ on_search_changed
    \/ RepairStart
    \/ Cancel
    \/ WorkerCancelled
    \/ WorkerRaise
    \/ OnFinishedOther
    \/ OnFailed

SpecRepairAborted == InitViews /\ [][NextRepairAborted]_vars

\* the rows of the two tables, as last filled
ShownRows == ambiguous_rows_all \o failed_rows_all

\* C36: the rows shown for a playlist that is not an exported one come from
\* a report a repair of this session wrote: when every repair of the session
\* failed or was cancelled before it rewrote a report, no view shows a row of
\* a key that has no exported playlist imported.
C36_NoRowsOfOldReports ==
    worker_pc = "idle" => \A k \in 1..Len(ShownRows) : ExportedKey(ShownRows[k].pl_key)


(***************************************************************************)
(* Apply and Save over several playlists                                   *)
(***************************************************************************)
NextSaveBatch ==
    \/ on_import_several
    \/ on_ambiguous_selected
    \/ on_failed_selected
    \/ on_browse_choice
    \/ on_apply_choice
    \/ on_save_fixed
    \/ ExportJob
    \/ Cancel
    \/ WorkerCancelled
    \/ WorkerRaise
    \/ WorkerReturn
    \/ OnFinishedSave
    \/ OnFinishedOther
    \/ OnFailed

SpecSaveBatch == InitApp /\ [][NextSaveBatch]_vars

\* the slot of the signal of a Save runs: the task has ended
SaveEnds ==
    /\ worker_func = "export"
    /\ worker_pc \in {"finished", "failed"}
    /\ worker_pc' = "idle"

\* C37: Save is all-or-nothing: when the task has ended, whether completed,
\* cancelled or failed, every job whose final playlist was written with the
\* selections of the session has those selections in the persisted
\* selections of its key.
C37_Step ==
    SaveEnds =>
        \A j \in 1..job_i : \A row \in DOMAIN worker_kwargs[j].selections :
            /\ row \in DOMAIN MapGet(selection_files', worker_kwargs[j].report_csv)
            /\ selection_files'[worker_kwargs[j].report_csv][row]
                   = worker_kwargs[j].selections[row]

C37_SaveAllOrNothing == [][C37_Step]_vars


(***************************************************************************)
(* Repair and Save of a batch whose playlists differ in content            *)
(***************************************************************************)
\* the batches the import dialog can return: the original and its exported
\* file share the key 15
BatchImportChoices ==
    {<<PL_ORIG>>, <<PL_ORIG, PL_EXP>>, <<PL_EXP, PL_ORIG>>, <<PL_ORIG, PL_OTHER>>}

on_import_batch ==
    /\ ~busy
    /\ ImportPlaylists(BatchImportChoices)

\* the rows repair_playlist writes for the playlist: each playlist has its
\* own lines, so its own rows
RepairRowsOf(pl) ==
    IF pl = PL_ORIG THEN REPORT_AMBIGUOUS
    ELSE IF pl = PL_EXP THEN REPORT_FAILED
    ELSE REPORT_7

\* one iteration of the playlist loop of repair_playlists: repair_playlist
\* writes the rows of the playlist to report_path_for(out_dir, pl)
RepairOwnJob ==
    /\ worker_pc = "running" /\ worker_func = "repair"
    /\ job_i < Len(worker_kwargs)
    /\ ~worker_cancelled
    /\ \E pl \in {worker_kwargs[job_i + 1]} :
           report_files' = MapPut(report_files, canonical_key(pl), RepairRowsOf(pl))
    /\ job_i' = job_i + 1
    /\ UNCHANGED <<worker_func, worker_kwargs, worker_cancelled, worker_pc, result>>
    /\ UNCHANGED <<selection_files, m3u_files, index_exists>>
    /\ UNCHANGED <<repairVars, matchVars, uiVars, callVars, scanVars>>

NextRepairBatch ==
    \/ on_import_batch
    \/ on_view_mode_changed
    \/ RepairStart
    \/ RepairOwnJob
    \/ on_save_fixed
    \/ ExportJob
    \/ WorkerReturn
    \/ OnFinishedRepair
    \/ OnFinishedSave

SpecRepairBatch == InitViews /\ [][NextRepairBatch]_vars

\* C38: when repair_playlists has completed, the report at the report path
\* of each playlist of the batch holds the rows of the repair of that
\* playlist, and the export paths of the playlists of the batch differ, two
\* playlists of one canonical key included.
C38_OwnReportAndExport ==
    (worker_pc = "finished" /\ worker_func = "repair" /\ result = "repair") =>
        /\ \A k \in 1..Len(worker_kwargs) :
               MapGet(report_files, canonical_key(worker_kwargs[k]))
                   = RepairRowsOf(worker_kwargs[k])
        /\ \A a, b \in 1..Len(worker_kwargs) :
               export_stem_for(worker_kwargs[a]) = export_stem_for(worker_kwargs[b]) => a = b


(***************************************************************************)
(* Claims: the written path of a row (checked under SpecRepair)            *)
(***************************************************************************)
\* the entries of the index at path p
EntriesAt(p) == {k \in 1..Len(music_index) : music_index[k].path = p}

\* entry k of the index has a duration within the tolerance of dur
WithinTolerance(k, dur) ==
    /\ music_index[k].duration # None
    /\ music_index[k].duration[1] - dur <= DUR_TOL_DEFAULT
    /\ dur - music_index[k].duration[1] <= DUR_TOL_DEFAULT

\* C39: the written_path of every REPAIRED row is the path of an entry of the
\* index whose duration is within the tolerance of the EXTINF duration of the
\* row, and the original path of the row does not exist; the written_path of
\* a row of any other status is its original_path.
C39_WrittenPathOfRows ==
    \A n \in 1..Len(report_rows) :
        LET r == report_rows[n]
        IN  IF r.status = S_REPAIRED
            THEN /\ r.original_path \notin fs
                 /\ r.extinf_duration # None
                 /\ \E k \in EntriesAt(r.written_path) :
                        WithinTolerance(k, r.extinf_duration[1])
            ELSE r.written_path = r.original_path

\* a playlist was repaired to its end: one row is REPAIRED with the path of
\* an entry whose duration is not the EXTINF duration, another row has
\* another status
C39_Witness ==
    /\ rpc = "done"
    /\ \E n, m \in 1..Len(report_rows) :
           /\ report_rows[n].status = S_REPAIRED
           /\ \A k \in EntriesAt(report_rows[n].written_path) :
                  music_index[k].duration # report_rows[n].extinf_duration
           /\ report_rows[m].status \in {S_KEPT, S_AMBIGUOUS, S_FAILED, S_FAILED_NO_EXTINF}

=============================================================================
